---------------------------- MODULE Spec2Model ----------------------------
(***************************************************************************)
(* Card search core: the query classifier (lib/query-parser.ts) and the   *)
(* catalog loader / hybrid search engine (lib/card-search.ts with smart   *)
(* search).  JavaScript strings are modelled as sequences of one-character *)
(* strings, so that trimming, lower-casing, substring tests and the        *)
(* regular expressions of the source are computed, not assumed.            *)
(***************************************************************************)
EXTENDS Integers, Sequences, FiniteSets, TLC

(***************************************************************************)
(* Bounds of the model.                                                    *)
(***************************************************************************)
MaxPieces == 4
NumCallers == 2
MaxCalls == 3
MaxLimit == 2
MaxFuzz == 1

(***************************************************************************)
(* String primitives.                                                      *)
(***************************************************************************)
Undefined == <<"undefined">>

SetMin(S) == CHOOSE x \in S : \A y \in S : x <= y

SetMax(S) == CHOOSE x \in S : \A y \in S : x >= y

IsSpace(c) == c \in {" ", "\t"}

IsDigit(c) == c \in {"0", "1", "2", "3", "4", "5", "6", "7", "8", "9"}

AllDigits(s) == \A i \in 1..Len(s) : IsDigit(s[i])

UpperChars == <<"A","B","C","D","E","F","G","H","I","J","K","L","M",
                "N","O","P","Q","R","S","T","U","V","W","X","Y","Z">>

LowerChars == <<"a","b","c","d","e","f","g","h","i","j","k","l","m",
                "n","o","p","q","r","s","t","u","v","w","x","y","z">>

LowerTable ==
  [c \in {UpperChars[k] : k \in 1..26} |->
     LowerChars[CHOOSE k \in 1..26 : UpperChars[k] = c]]

LowerChar(c) == IF c \in DOMAIN LowerTable THEN LowerTable[c] ELSE c

toLowerCase(s) == [i \in 1..Len(s) |-> LowerChar(s[i])]

trim(s) ==
  LET keep == {i \in 1..Len(s) : ~IsSpace(s[i])}
  IN  IF keep = {} THEN <<>> ELSE SubSeq(s, SetMin(keep), SetMax(keep))

includes(s, sub) ==
  \E i \in 0..(Len(s) - Len(sub)) : SubSeq(s, i + 1, i + Len(sub)) = sub

\* Variant: the digits are taken as captured.
StripZerosIdentity(d) == d

\* str.replace(/^0+/, "") || "0"

StripZeros(d) ==
  LET nz == {i \in 1..Len(d) : d[i] # "0"}
  IN  IF nz = {} THEN <<"0">> ELSE SubSeq(d, SetMin(nz), Len(d))

\* Length of the maximal run of characters satisfying P at the start of s.
DigitRun(s) ==
  LET stop == {i \in 1..Len(s) : ~IsDigit(s[i])}
  IN  IF stop = {} THEN Len(s) ELSE SetMin(stop) - 1

SpaceRun(s) ==
  LET stop == {i \in 1..Len(s) : ~IsSpace(s[i])}
  IN  IF stop = {} THEN Len(s) ELSE SetMin(stop) - 1

(***************************************************************************)
(* The set-abbreviation table, in source order.                            *)
(***************************************************************************)
SET_ABBREVIATIONS ==
  <<
    [key |-> <<"b","a","s","e">>,
     aliases |-> <<<<"b","a","s","e"," ","s","e","t">>,
                   <<"b","a","s","e"," ","s","e","t"," ","(","s","h","a","d","o","w","l","e","s","s",")">>,
                   <<"b","a","s","e"," ","s","e","t"," ","2">>>>],
    [key |-> <<"s","h","a","d","o","w","l","e","s","s">>,
     aliases |-> <<<<"b","a","s","e"," ","s","e","t"," ","(","s","h","a","d","o","w","l","e","s","s",")">>>>],
    [key |-> <<"j","u","n","g","l","e">>,
     aliases |-> <<<<"j","u","n","g","l","e">>>>],
    [key |-> <<"f","o","s","s","i","l">>,
     aliases |-> <<<<"f","o","s","s","i","l">>>>],
    [key |-> <<"r","o","c","k","e","t">>,
     aliases |-> <<<<"t","e","a","m"," ","r","o","c","k","e","t">>,
                   <<"t","e","a","m"," ","r","o","c","k","e","t"," ","r","e","t","u","r","n","s">>>>],
    [key |-> <<"n","e","o">>,
     aliases |-> <<<<"n","e","o"," ","d","e","s","t","i","n","y">>,
                   <<"n","e","o"," ","g","e","n","e","s","i","s">>,
                   <<"n","e","o"," ","r","e","v","e","l","a","t","i","o","n">>,
                   <<"n","e","o"," ","d","i","s","c","o","v","e","r","y">>>>],
    [key |-> <<"g","y","m">>,
     aliases |-> <<<<"g","y","m"," ","h","e","r","o","e","s">>,
                   <<"g","y","m"," ","c","h","a","l","l","e","n","g","e">>>>],
    [key |-> <<"s","w","s","h">>,
     aliases |-> <<<<"s","w","s","h">>,
                   <<"s","w","o","r","d"," ","&"," ","s","h","i","e","l","d">>>>],
    [key |-> <<"s","m">>,
     aliases |-> <<<<"s","m"," ","-">>,
                   <<"s","u","n"," ","&"," ","m","o","o","n">>>>],
    [key |-> <<"x","y">>,
     aliases |-> <<<<"x","y"," ","-">>,
                   <<"x","y",":">>>>],
    [key |-> <<"b","w">>,
     aliases |-> <<<<"b","l","a","c","k"," ","&"," ","w","h","i","t","e">>,
                   <<"b","w"," ","-">>>>],
    [key |-> <<"d","p">>,
     aliases |-> <<<<"d","i","a","m","o","n","d"," ","&"," ","p","e","a","r","l">>,
                   <<"d","p"," ","-">>>>],
    [key |-> <<"e","x">>,
     aliases |-> <<<<"e","x"," ","-">>,
                   <<"e","x",":">>>>],
    [key |-> <<"e","v","o","l","v","i","n","g">>,
     aliases |-> <<<<"e","v","o","l","v","i","n","g"," ","s","k","i","e","s">>>>],
    [key |-> <<"b","r","i","l","l","i","a","n","t">>,
     aliases |-> <<<<"b","r","i","l","l","i","a","n","t"," ","s","t","a","r","s">>>>],
    [key |-> <<"a","s","t","r","a","l">>,
     aliases |-> <<<<"a","s","t","r","a","l"," ","r","a","d","i","a","n","c","e">>>>],
    [key |-> <<"f","u","s","i","o","n">>,
     aliases |-> <<<<"f","u","s","i","o","n"," ","s","t","r","i","k","e">>>>],
    [key |-> <<"c","h","i","l","l","i","n","g">>,
     aliases |-> <<<<"c","h","i","l","l","i","n","g"," ","r","e","i","g","n">>>>],
    [key |-> <<"v","i","v","i","d">>,
     aliases |-> <<<<"v","i","v","i","d"," ","v","o","l","t","a","g","e">>>>],
    [key |-> <<"c","h","a","m","p","i","o","n","s">>,
     aliases |-> <<<<"c","h","a","m","p","i","o","n","'","s"," ","p","a","t","h">>>>],
    [key |-> <<"h","i","d","d","e","n">>,
     aliases |-> <<<<"h","i","d","d","e","n"," ","f","a","t","e","s">>>>],
    [key |-> <<"c","o","s","m","i","c">>,
     aliases |-> <<<<"c","o","s","m","i","c"," ","e","c","l","i","p","s","e">>>>],
    [key |-> <<"u","n","i","f","i","e","d">>,
     aliases |-> <<<<"u","n","i","f","i","e","d"," ","m","i","n","d","s">>>>],
    [key |-> <<"u","n","b","r","o","k","e","n">>,
     aliases |-> <<<<"u","n","b","r","o","k","e","n"," ","b","o","n","d","s">>>>],
    [key |-> <<"l","o","s","t">>,
     aliases |-> <<<<"l","o","s","t"," ","o","r","i","g","i","n">>>>],
    [key |-> <<"s","i","l","v","e","r">>,
     aliases |-> <<<<"s","i","l","v","e","r"," ","t","e","m","p","e","s","t">>>>],
    [key |-> <<"c","r","o","w","n">>,
     aliases |-> <<<<"c","r","o","w","n"," ","z","e","n","i","t","h">>>>],
    [key |-> <<"p","a","l","d","e","a">>,
     aliases |-> <<<<"p","a","l","d","e","a"," ","e","v","o","l","v","e","d">>>>],
    [key |-> <<"o","b","s","i","d","i","a","n">>,
     aliases |-> <<<<"o","b","s","i","d","i","a","n"," ","f","l","a","m","e","s">>>>],
    [key |-> <<"s","c","a","r","l","e","t">>,
     aliases |-> <<<<"s","c","a","r","l","e","t"," ","&"," ","v","i","o","l","e","t">>>>],
    [key |-> <<"t","e","m","p","o","r","a","l">>,
     aliases |-> <<<<"t","e","m","p","o","r","a","l"," ","f","o","r","c","e","s">>>>],
    [key |-> <<"t","w","i","l","i","g","h","t">>,
     aliases |-> <<<<"t","w","i","l","i","g","h","t"," ","m","a","s","q","u","e","r","a","d","e">>>>],
    [key |-> <<"s","h","r","o","u","d","e","d">>,
     aliases |-> <<<<"s","h","r","o","u","d","e","d"," ","f","a","b","l","e">>>>],
    [key |-> <<"s","t","e","l","l","a","r">>,
     aliases |-> <<<<"s","t","e","l","l","a","r"," ","c","r","o","w","n">>>>],
    [key |-> <<"s","u","r","g","i","n","g">>,
     aliases |-> <<<<"s","u","r","g","i","n","g"," ","s","p","a","r","k","s">>>>]
  >>

\* SET_ABBREVIATIONS is an object literal: a property that is not its own is
\* looked up on Object.prototype.  The lower-case names found there are
\* "constructor" (a function) and "__proto__" (an object); Inherited stands
\* for such a value, which is neither undefined nor an array.
InheritedKeys == {<<"c","o","n","s","t","r","u","c","t","o","r">>,
                  <<"_","_","p","r","o","t","o","_","_">>}

Inherited == <<"inherited">>

\* SET_ABBREVIATIONS[key]
AbbrevAliases(key) ==
  LET hit == {k \in 1..Len(SET_ABBREVIATIONS) : SET_ABBREVIATIONS[k].key = key}
  IN  IF hit # {} THEN SET_ABBREVIATIONS[SetMin(hit)].aliases
      ELSE IF key \in InheritedKeys THEN Inherited
      ELSE Undefined

(***************************************************************************)
(* The three regular expressions of parseQuery.  A match is a record with *)
(* its capture groups; NoMatch stands for null.                            *)
(***************************************************************************)
NoMatch == [matched |-> FALSE, g1 |-> <<>>, g2 |-> <<>>]

\* Variant: the two capture groups taken in the wrong order.
SlashMatchSwapped(lower) ==
  LET ks == {k \in 1..3 :
               /\ Len(lower) >= k + 2
               /\ lower[k + 1] = "/"
               /\ AllDigits(SubSeq(lower, 1, k))
               /\ Len(lower) - (k + 1) \in 1..3
               /\ AllDigits(SubSeq(lower, k + 2, Len(lower)))}
  IN  IF ks = {} THEN NoMatch
      ELSE LET k == SetMin(ks)
           IN  [matched |-> TRUE,
                g1 |-> SubSeq(lower, k + 2, Len(lower)),
                g2 |-> SubSeq(lower, 1, k)]

\* /^(\d{1,3})\/(\d{1,3})$/
SlashMatch(lower) ==
  LET ks == {k \in 1..3 :
               /\ Len(lower) >= k + 2
               /\ lower[k + 1] = "/"
               /\ AllDigits(SubSeq(lower, 1, k))
               /\ Len(lower) - (k + 1) \in 1..3
               /\ AllDigits(SubSeq(lower, k + 2, Len(lower)))}
  IN  IF ks = {} THEN NoMatch
      ELSE LET k == SetMin(ks)
           IN  [matched |-> TRUE,
                g1 |-> SubSeq(lower, 1, k),
                g2 |-> SubSeq(lower, k + 2, Len(lower))]

\* \s+#?(\d{1,3})$ applied to the rest of the text after the lazy prefix.
TailDigits(rest) ==
  LET m     == SpaceRun(rest)
      after == SubSeq(rest, m + 1, Len(rest))
      d     == IF after # <<>> /\ after[1] = "#" THEN Tail(after) ELSE after
  IN  IF m >= 1 /\ Len(d) \in 1..3 /\ AllDigits(d) THEN d ELSE Undefined

\* /^(.+?)\s+#?(\d{1,3})$/ : the lazy group takes the shortest prefix of at
\* least one character after which the rest matches.
SetNumberMatch(lower) ==
  LET ks == {k \in 1..(Len(lower) - 1) :
               TailDigits(SubSeq(lower, k + 1, Len(lower))) # Undefined}
  IN  IF ks = {} THEN NoMatch
      ELSE LET k == SetMin(ks)
           IN  [matched |-> TRUE,
                g1 |-> SubSeq(lower, 1, k),
                g2 |-> TailDigits(SubSeq(lower, k + 1, Len(lower)))]

\* /#(\d{1,3})(?:\s|$)/ : leftmost '#' whose digit run has 1 to 3 digits and
\* is followed by white space or the end of the text.
HashMatch(lower) ==
  LET ok(i) == /\ lower[i] = "#"
               /\ LET r == DigitRun(SubSeq(lower, i + 1, Len(lower)))
                  IN  /\ r \in 1..3
                      /\ \/ i + r = Len(lower)
                         \/ IsSpace(lower[i + r + 1])
      is == {i \in 1..Len(lower) : ok(i)}
  IN  IF is = {} THEN NoMatch
      ELSE LET i == SetMin(is)
               r == DigitRun(SubSeq(lower, i + 1, Len(lower)))
           IN  [matched |-> TRUE,
                g1 |-> SubSeq(lower, i + 1, i + r),
                g2 |-> <<>>]

\* lower.replace(/#\d{1,3}/, "") : removes the first '#' that is followed by
\* a digit, together with up to three of the digits after it.
RemoveHashToken(lower) ==
  LET is == {i \in 1..(Len(lower) - 1) : lower[i] = "#" /\ IsDigit(lower[i + 1])}
  IN  IF is = {} THEN lower
      ELSE LET i == SetMin(is)
               r == DigitRun(SubSeq(lower, i + 1, Len(lower)))
               n == IF r > 3 THEN 3 ELSE r
           IN  SubSeq(lower, 1, i - 1) \o SubSeq(lower, i + n + 1, Len(lower))

isLikelySet(setHint) ==
  \/ AbbrevAliases(setHint) # Undefined
  \/ \E k \in 1..Len(SET_ABBREVIATIONS) :
       \E j \in 1..Len(SET_ABBREVIATIONS[k].aliases) :
         LET a == SET_ABBREVIATIONS[k].aliases[j]
         IN  includes(setHint, a) \/ includes(a, setHint)
  \/ includes(setHint, <<"s","e","t">>)
  \/ Len(setHint) <= 4

\* The four return statements of parseQuery, first match wins.
ParsedResult(query, normalized, slashMatch, setNumberMatch, hashMatch, setHint, remaining) ==
  IF slashMatch.matched
  THEN [type |-> "card-number",
        cardNumber |-> StripZeros(slashMatch.g1),
        setSize |-> slashMatch.g2,
        setHint |-> Undefined,
        nameQuery |-> <<>>,
        originalQuery |-> query]
  ELSE IF setNumberMatch.matched /\ isLikelySet(setHint)
  THEN [type |-> "set-number",
        cardNumber |-> StripZeros(setNumberMatch.g2),
        setSize |-> Undefined,
        setHint |-> setHint,
        nameQuery |-> setHint,
        originalQuery |-> query]
  ELSE IF hashMatch.matched
  THEN [type |-> "set-number",
        cardNumber |-> StripZeros(hashMatch.g1),
        setSize |-> Undefined,
        setHint |-> IF remaining = <<>> THEN Undefined ELSE remaining,
        nameQuery |-> remaining,
        originalQuery |-> query]
  ELSE [type |-> "name",
        cardNumber |-> Undefined,
        setSize |-> Undefined,
        setHint |-> Undefined,
        nameQuery |-> normalized,
        originalQuery |-> query]

MatchRules(query, normalized, lower, setNumberMatch) ==
  ParsedResult(query, normalized, SlashMatch(lower), setNumberMatch,
               HashMatch(lower), trim(setNumberMatch.g1),
               trim(RemoveHashToken(lower)))

ParseLower(query, normalized, lower) ==
  MatchRules(query, normalized, lower, SetNumberMatch(lower))

ParseTrimmed(query, normalized) ==
  ParseLower(query, normalized, toLowerCase(normalized))

parseQuery(query) == ParseTrimmed(query, trim(query))

(***************************************************************************)
(* Card records, the number index and the fuzzy index.                     *)
(***************************************************************************)
Null == [null |-> TRUE]

\* Variant: num.replace(/^0+/, ""), which keeps what follows the digits and
\* leaves nothing of an all-zero input.
normalizeCardNumberReplace(num) ==
  LET nz == {i \in 1..Len(num) : num[i] # "0"}
  IN  IF nz = {} THEN <<>> ELSE SubSeq(num, SetMin(nz), Len(num))

\* num.match(/^0*(\d+)/) : the leading digit run without its leading zeros,
\* keeping the last zero of an all-zero run; the input itself if no match.
normalizeCardNumber(num) ==
  LET r  == DigitRun(num)
      nz == {i \in 1..r : num[i] # "0"}
  IN  IF r = 0 THEN num
      ELSE IF nz = {} THEN <<"0">>
      ELSE SubSeq(num, SetMin(nz), r)

EmptyMap == [k \in {} |-> <<>>]

\* Variant: the bucket is keyed by the number as written on the card.
IndexCardRaw(index, card) ==
  LET withKey == IF card.number \in DOMAIN index THEN index
                 ELSE index @@ (card.number :> <<>>)
  IN  [withKey EXCEPT ![card.number] = Append(@, card)]

\* One turn of the loop: the card is pushed on the bucket of its normalized
\* number, the bucket being created when the index has none for it.
IndexCard(index, card) ==
  LET normalized == normalizeCardNumber(card.number)
      withKey    == IF normalized \in DOMAIN index THEN index
                    ELSE index @@ (normalized :> <<>>)
  IN  [withKey EXCEPT ![normalized] = Append(@, card)]

\* for (const card of cards), over cards[lo..hi] in order.  The range is
\* walked by halves and the index reached after the first half is compared
\* before the second half starts, which makes TLC compute it there and keeps
\* the nesting of the evaluation logarithmic.
RECURSIVE BuildFrom(_, _, _, _)
RECURSIVE BuildRest(_, _, _, _)
BuildFrom(cards, lo, hi, index) ==
  IF lo > hi THEN index
  ELSE IF lo = hi THEN IndexCard(index, cards[lo])
  ELSE BuildRest(cards, ((lo + hi) \div 2) + 1, hi,
                 BuildFrom(cards, lo, (lo + hi) \div 2, index))

BuildRest(cards, lo, hi, index) ==
  IF index = EmptyMap THEN BuildFrom(cards, lo, hi, EmptyMap)
  ELSE BuildFrom(cards, lo, hi, index)

buildNumberIndex(cards) == [buckets |-> BuildFrom(cards, 1, Len(cards), EmptyMap)]

\* card.number of a malformed record is not a string: num.match throws.
BuildThrows(cards) == \E i \in 1..Len(cards) : cards[i].number = Undefined

\* new Fuse(undefined, options) reads docs.length and throws.
FuseThrows(data) == data.cards = Undefined

\* cardsByNumber.get(normalized) || []
BucketOf(index, normalized) ==
  IF normalized \in DOMAIN index.buckets THEN index.buckets[normalized] ELSE <<>>

\* Variant: a sort that is not stable; elements that compare equal come out
\* in the reverse of their order.
InsertIdxUnstable(cmp, k, acc) ==
  LET after == {p \in 1..Len(acc) : cmp[acc[p]][k] >= 0}
  IN  IF after = {} THEN Append(acc, k)
      ELSE SubSeq(acc, 1, SetMin(after) - 1) \o <<k>>
           \o SubSeq(acc, SetMin(after), Len(acc))

\* Array.prototype.sort is stable: insertion of the k-th element before the
\* first already placed element that the comparator puts after it.
\* cmp[i][j] is comparator(s[i], s[j]).
InsertIdx(cmp, k, acc) ==
  LET after == {p \in 1..Len(acc) : cmp[acc[p]][k] > 0}
  IN  IF after = {} THEN Append(acc, k)
      ELSE SubSeq(acc, 1, SetMin(after) - 1) \o <<k>>
           \o SubSeq(acc, SetMin(after), Len(acc))

\* The elements lo..hi are inserted in order, the range walked by halves as
\* in BuildFrom.
RECURSIVE SortIdx(_, _, _, _)
RECURSIVE SortRest(_, _, _, _)
SortIdx(cmp, lo, hi, acc) ==
  IF lo > hi THEN acc
  ELSE IF lo = hi THEN InsertIdx(cmp, lo, acc)
  ELSE SortRest(cmp, ((lo + hi) \div 2) + 1, hi,
                SortIdx(cmp, lo, (lo + hi) \div 2, acc))

SortRest(cmp, lo, hi, acc) ==
  IF acc = <<>> THEN SortIdx(cmp, lo, hi, <<>>)
  ELSE SortIdx(cmp, lo, hi, acc)

sort(s, cmp) ==
  LET p == SortIdx(cmp, 1, Len(s), <<>>)
  IN  [i \in 1..Len(s) |-> s[p[i]]]

\* (a, b) => b.highestPrice - a.highestPrice
byPriceDesc(s) ==
  [i \in 1..Len(s) |-> [j \in 1..Len(s) |-> s[j].highestPrice - s[i].highestPrice]]

sortByPrice(s) == sort(s, byPriceDesc(s))

\* Variant: the comparator looks at the price only.
byPriceOnly(s, lower) ==
  [i \in 1..Len(s) |-> [j \in 1..Len(s) |-> s[j].highestPrice - s[i].highestPrice]]

\* The comparator of the exact matches: exact name first, then price.
byExactThenPrice(s, lower) ==
  [i \in 1..Len(s) |-> [j \in 1..Len(s) |->
     LET aExact == IF toLowerCase(s[i].name) = lower THEN 1 ELSE 0
         bExact == IF toLowerCase(s[j].name) = lower THEN 1 ELSE 0
     IN  IF aExact # bExact THEN bExact - aExact
         ELSE s[j].highestPrice - s[i].highestPrice]]

\* array.slice(0, limit)
slice0(s, limit) ==
  LET end == IF limit < 0
             THEN (IF Len(s) + limit < 0 THEN 0 ELSE Len(s) + limit)
             ELSE (IF limit > Len(s) THEN Len(s) ELSE limit)
  IN  SubSeq(s, 1, end)

(***************************************************************************)
(* The fuzzy index is the Fuse.js library.  Its matcher is represented by  *)
(* approximate substring matching over the three indexed keys: a document  *)
(* matches when some key holds a window that differs from the lower-cased  *)
(* pattern in at most `fuzz' positions; the tolerance is fixed when the    *)
(* index is built, results come best score first, ties in document order.  *)
(***************************************************************************)
Mismatch(text, pat) ==
  LET wins == 0..(Len(text) - Len(pat))
      d(w) == Cardinality({i \in 1..Len(pat) : text[w + i] # pat[i]})
  IN  IF wins = {} THEN Len(pat) + 1 ELSE SetMin({d(w) : w \in wins})

FuseScore(doc, pat) ==
  SetMin({Mismatch(toLowerCase(doc.name), pat),
          Mismatch(toLowerCase(doc.setName), pat),
          Mismatch(toLowerCase(doc.rarity), pat)})

NewFuse(docs, fuzz) == [docs |-> docs, fuzz |-> fuzz]

FuseSearch(index, text, limit) ==
  LET pat   == toLowerCase(text)
      docs  == index.docs
      score == [i \in 1..Len(docs) |-> FuseScore(docs[i], pat)]
      hits  == SelectSeq([i \in 1..Len(docs) |-> i],
                 LAMBDA i : Len(pat) >= 2 /\ score[i] <= index.fuzz)
      cmp   == [i \in 1..Len(hits) |-> [j \in 1..Len(hits) |->
                  score[hits[i]] - score[hits[j]]]]
      rank  == sort(hits, cmp)
  IN  slice0([i \in 1..Len(rank) |-> docs[rank[i]]], limit)

(***************************************************************************)
(* Module state of card-search, and the bookkeeping of the asynchronous    *)
(* load: the position of the loading task, each caller of loadCardData,    *)
(* the number of fetches started and the last smartSearch call.  pq and    *)
(* parsed hold the argument and the value of the pure function applied     *)
(* on its own (parseQuery, normalizeCardNumber, buildNumberIndex).         *)
(***************************************************************************)
VARIABLES cardData, fuseIndex, cardsByNumber, loadPromise,
          task, callers, calls, fetchCount, lastSearch, pq, parsed

vars == <<cardData, fuseIndex, cardsByNumber, loadPromise,
          task, callers, calls, fetchCount, lastSearch, pq, parsed>>

Callers == 1..NumCallers

DefaultLimit == 50

(***************************************************************************)
(* Hybrid search engine.                                                   *)
(***************************************************************************)
\* In-place sort of the bucket array held by the index.
SortBucketInPlace(index, normalized) ==
  IF normalized \in DOMAIN index.buckets
  THEN [buckets |-> [index.buckets EXCEPT ![normalized] = sortByPrice(@)]]
  ELSE index

\* The functions of the engine read the global cardsByNumber; it is passed
\* to them as `index', and the index they leave behind is returned with
\* their results.

\* Variant: the set size of the query is not compared.
searchByCardNumberAnySize(index, cardNum, setSize) ==
  IF index = Null THEN [results |-> <<>>, index |-> index]
  ELSE [results |-> sortByPrice(BucketOf(index, StripZeros(cardNum))),
        index   |-> index]

searchByCardNumber(index, cardNum, setSize) ==
  IF index = Null THEN [results |-> <<>>, index |-> index]
  ELSE
    LET normalized == StripZeros(cardNum)
        candidates == BucketOf(index, normalized)
        hasSize    == setSize # Undefined /\ setSize # <<>>
        slashAt(n) == {i \in 1..Len(n) : n[i] = "/"}
        \* card.number.split("/")[1]
        part1(n)   == IF slashAt(n) = {} THEN Undefined
                      ELSE LET rest == SubSeq(n, SetMin(slashAt(n)) + 1, Len(n))
                               more == {i \in 1..Len(rest) : rest[i] = "/"}
                           IN  IF more = {} THEN rest
                               ELSE SubSeq(rest, 1, SetMin(more) - 1)
        filtered   == SelectSeq(candidates, LAMBDA card : part1(card.number) = setSize)
    IN  IF hasSize
        THEN [results |-> sortByPrice(filtered), index |-> index]
        ELSE [results |-> sortByPrice(candidates),
              index   |-> SortBucketInPlace(index, normalized)]

\* possibleSets?.some(...) is a call of undefined, a TypeError, when the
\* value looked up is neither undefined nor an array; the direct substring
\* test comes first.
matchSetNameThrows(hint, actualSetName) ==
  /\ ~includes(toLowerCase(actualSetName), toLowerCase(hint))
  /\ AbbrevAliases(toLowerCase(hint)) = Inherited

\* The value matchSetName returns when it does not throw.
matchSetName(hint, actualSetName) ==
  LET hintLower    == toLowerCase(hint)
      setLower     == toLowerCase(actualSetName)
      possibleSets == AbbrevAliases(hintLower)
  IN  \/ includes(setLower, hintLower)
      \/ /\ possibleSets # Undefined
         /\ possibleSets # Inherited
         /\ \E j \in 1..Len(possibleSets) : includes(setLower, possibleSets[j])
      \/ \E k \in 1..Len(SET_ABBREVIATIONS) :
           \E j \in 1..Len(SET_ABBREVIATIONS[k].aliases) :
             LET a == SET_ABBREVIATIONS[k].aliases[j]
             IN  includes(a, hintLower) /\ includes(setLower, a)

\* Variant: the set hint is not applied.
searchBySetAndNumberAnySet(index, setHint, cardNum) ==
  IF index = Null THEN [results |-> <<>>, index |-> index]
  ELSE [results |-> sortByPrice(BucketOf(index, StripZeros(cardNum))),
        index   |-> SortBucketInPlace(index, StripZeros(cardNum))]

searchBySetAndNumber(index, setHint, cardNum) ==
  IF index = Null THEN [results |-> <<>>, index |-> index]
  ELSE
    LET normalized == StripZeros(cardNum)
        candidates == BucketOf(index, normalized)
        filtered   == SelectSeq(candidates,
                                LAMBDA card : matchSetName(setHint, card.setName))
    IN  IF setHint = Undefined \/ setHint = <<>>
        THEN [results |-> sortByPrice(candidates),
              index   |-> SortBucketInPlace(index, normalized)]
        ELSE [results |-> sortByPrice(filtered), index |-> index]

\* The filter callback throws on the first candidate for which matchSetName
\* throws, and the exception leaves searchBySetAndNumber.
searchBySetAndNumberThrows(index, setHint, cardNum) ==
  /\ index # Null
  /\ setHint # Undefined /\ setHint # <<>>
  /\ LET candidates == BucketOf(index, StripZeros(cardNum))
     IN  \E j \in 1..Len(candidates) :
           matchSetNameThrows(setHint, candidates[j].setName)

\* Variant: the fuzzy results replace the exact matches.
SupplementFuzzyOnly(nameQuery, sorted) ==
  IF Len(sorted) >= 10 THEN sorted
  ELSE FuseSearch(fuseIndex, nameQuery, 100)

\* Variant: every fuzzy result is appended.
SupplementAll(nameQuery, sorted) ==
  IF Len(sorted) >= 10 THEN sorted
  ELSE sorted \o FuseSearch(fuseIndex, nameQuery, 100)

\* Variant: the fuzzy results are appended however many exact matches
\* there are.
SupplementAlways(nameQuery, sorted) ==
  sorted \o SelectSeq(FuseSearch(fuseIndex, nameQuery, 100),
                      LAMBDA card : \A i \in 1..Len(sorted) : sorted[i].id # card.id)

\* Step 3c: the fuzzy results that are not among the exact matches follow
\* the sorted exact matches; ten exact matches or more are returned as is.
Supplement(nameQuery, sorted) ==
  IF Len(sorted) >= 10 THEN sorted
  ELSE sorted \o SelectSeq(FuseSearch(fuseIndex, nameQuery, 100),
                           LAMBDA card : \A i \in 1..Len(sorted) : sorted[i].id # card.id)

ExactFirst(nameQuery, lower, exactMatches) ==
  IF Len(exactMatches) > 0
  THEN Supplement(nameQuery, sort(exactMatches, byExactThenPrice(exactMatches, lower)))
  ELSE FuseSearch(fuseIndex, nameQuery, 100)

NameMatches(nameQuery, lower) ==
  IF lower = <<>> THEN <<>>
  ELSE ExactFirst(nameQuery, lower,
                  SelectSeq(cardData.cards,
                            LAMBDA card : includes(toLowerCase(card.name), lower)))

searchByName(nameQuery) ==
  IF cardData = Null \/ fuseIndex = Null THEN <<>>
  ELSE NameMatches(nameQuery, trim(toLowerCase(nameQuery)))

\* Variant: the not-ready branch throws.
NotReadyThrows(index) ==
  [ranked |-> <<>>, index |-> index, type |-> "none",
   structural |-> <<>>, nameSearches |-> 0, threw |-> TRUE, warned |-> FALSE]

\* The not-ready branch: a warning and an empty array.
NotReady(index) ==
  [ranked |-> <<>>, index |-> index, type |-> "none",
   structural |-> <<>>, nameSearches |-> 0, threw |-> FALSE, warned |-> TRUE]

\* Variant: the fallback searches the classified name text.
FallbackNameQuery(p) == p.nameQuery

\* The text handed to the last-resort name search.

FallbackText(p) == p.originalQuery

\* The switch on parsed.type.
NumberPath(index, p) ==
  IF p.type = "card-number"
  THEN searchByCardNumber(index, p.cardNumber, p.setSize)
  ELSE IF p.type = "set-number"
  THEN searchBySetAndNumber(index, p.setHint, p.cardNumber)
  ELSE [results |-> searchByName(p.nameQuery), index |-> index]

\* The fallback: `ranked' is the value of results before the truncation.
Respond(p, number, fall) ==
  [ranked |-> IF fall THEN searchByName(FallbackText(p)) ELSE number.results,
   index |-> number.index, type |-> p.type, structural |-> number.results,
   nameSearches |-> (IF p.type = "name" THEN 1 ELSE 0) + (IF fall THEN 1 ELSE 0),
   threw |-> FALSE, warned |-> FALSE]

Dispatched(p, number) ==
  Respond(p, number, Len(number.results) = 0 /\ p.type # "name")

\* smartSearch has no try block: an exception of the number path leaves it
\* before the fallback and the return statement.
Thrown(index, p) ==
  [ranked |-> <<>>, index |-> index, type |-> p.type,
   structural |-> <<>>, nameSearches |-> 0, threw |-> TRUE, warned |-> FALSE]

Dispatch(index, p) ==
  IF p.type = "set-number" /\ searchBySetAndNumberThrows(index, p.setHint, p.cardNumber)
  THEN Thrown(index, p)
  ELSE Dispatched(p, NumberPath(index, p))

\* Variant: no test of the empty query.
RankedNoBlankTest(index, query) ==
  IF cardData = Null \/ fuseIndex = Null \/ index = Null THEN NotReady(index)
  ELSE Dispatch(index, parseQuery(query))

\* smartSearch up to its return statement.
Ranked(index, query) ==
  IF cardData = Null \/ fuseIndex = Null \/ index = Null THEN NotReady(index)
  ELSE IF trim(query) = <<>>
  THEN [ranked |-> <<>>, index |-> index, type |-> "none",
        structural |-> <<>>, nameSearches |-> 0, threw |-> FALSE, warned |-> FALSE]
  ELSE Dispatch(index, parseQuery(query))

\* Variant: one entry more than limit is kept.
TruncateOneMore(r, limit) ==
  [result |-> slice0(r.ranked, limit + 1), ranked |-> r.ranked, index |-> r.index,
   type |-> r.type, structural |-> r.structural,
   nameSearches |-> r.nameSearches, threw |-> r.threw, warned |-> r.warned]

\* return results.slice(0, limit)
Truncate(r, limit) ==
  [result |-> slice0(r.ranked, limit), ranked |-> r.ranked, index |-> r.index,
   type |-> r.type, structural |-> r.structural,
   nameSearches |-> r.nameSearches, threw |-> r.threw, warned |-> r.warned]

\* smartSearch with the global cardsByNumber holding index.
smartSearchOn(index, query, limit) == Truncate(Ranked(index, query), limit)

smartSearch(query, limit) == smartSearchOn(cardsByNumber, query, limit)

\* Variant: ready as soon as a load has been started.
isDataLoadedOnceStarted == loadPromise # Null

isDataLoaded == cardData # Null /\ fuseIndex # Null

(***************************************************************************)
(* Catalog bodies the fetch of /cards-data.json can deliver: well-formed   *)
(* catalogs, the JSON value null, and two malformed bodies (no cards       *)
(* array; a record whose number is not a string).                          *)
(***************************************************************************)
CardA ==
  [id |-> <<"a">>, name |-> <<"C","h","a","r","i","z","a","r","d">>,
   number |-> <<"4","/","1","0","2">>,
   setName |-> <<"B","a","s","e"," ","S","e","t">>,
   rarity |-> <<"R","a","r","e">>, highestPrice |-> 300]

CardB ==
  [id |-> <<"b">>, name |-> <<"C","h","a","r","i","z","a","r","d">>,
   number |-> <<"4","/","1","0","2">>,
   setName |-> <<"B","a","s","e"," ","S","e","t"," ","(","S","h","a","d","o","w","l","e","s","s",")">>,
   rarity |-> <<"R","a","r","e">>, highestPrice |-> 5000]

CardC ==
  [id |-> <<"c">>, name |-> <<"L","v"," ","9","/","5">>,
   number |-> <<"0","0","7">>,
   setName |-> <<"J","u","n","g","l","e">>,
   rarity |-> <<"C","o","m","m","o","n">>, highestPrice |-> 5]

CardD ==
  [id |-> <<"d">>, name |-> <<"X"," ","4">>,
   number |-> <<"S","W","S","H","4">>,
   setName |-> <<"F","o","s","s","i","l">>,
   rarity |-> <<"P","r","o","m","o">>, highestPrice |-> 12]

CardE ==
  [id |-> <<"e">>, name |-> <<"P","i","k","a","c","h","u">>,
   number |-> <<"4">>,
   setName |-> <<"J","u","n","g","l","e">>,
   rarity |-> <<"C","o","m","m","o","n">>, highestPrice |-> 300]

CardF ==
  [id |-> <<"f">>, name |-> <<"P","i","k","a","c","h","u"," ","V","M","A","X">>,
   number |-> <<"4","/","0","1","0","2">>,
   setName |-> <<"J","u","n","g","l","e">>,
   rarity |-> <<"R","a","r","e">>, highestPrice |-> 500]

CardH ==
  [id |-> <<"h">>, name |-> <<"C","h","a","r","m","a","n","d","e","r">>,
   number |-> <<"4","6","/","1","0","2">>,
   setName |-> <<"C","h","a","r","i","z","a","r","d"," ","B","o","x">>,
   rarity |-> <<"C","o","m","m","o","n">>, highestPrice |-> 9000]

CardBroken ==
  [id |-> <<"z">>, name |-> <<"D","i","t","t","o">>,
   number |-> Undefined,
   setName |-> <<"F","o","s","s","i","l">>,
   rarity |-> <<"C","o","m","m","o","n">>, highestPrice |-> 1]

CatalogA == [cards |-> <<CardA, CardB, CardE, CardC, CardD, CardF>>]

CatalogB == [cards |-> <<CardH, CardB, CardD, CardA>>]

CatalogEmpty == [cards |-> <<>>]

\* A catalog of BulkSize cards numbered 1, 2, ...: ten named "Pikachu V",
\* the last one a "Raichu" of the set "Pikachu V Box", the others named
\* "Pikachu" and "Pikachu EX" in turn.
BulkSize == 52

DigitChars == <<"0","1","2","3","4","5","6","7","8","9">>

BulkName(i) ==
  IF i <= 10 THEN <<"P","i","k","a","c","h","u"," ","V">>
  ELSE IF i = BulkSize THEN <<"R","a","i","c","h","u">>
  ELSE IF i % 2 = 1 THEN <<"P","i","k","a","c","h","u">>
  ELSE <<"P","i","k","a","c","h","u"," ","E","X">>

BulkCard(i) ==
  [id |-> <<"k", DigitChars[(i \div 10) + 1], DigitChars[(i % 10) + 1]>>,
   name |-> BulkName(i),
   number |-> IF i < 10 THEN <<DigitChars[i + 1]>>
              ELSE <<DigitChars[(i \div 10) + 1], DigitChars[(i % 10) + 1]>>,
   setName |-> IF i = BulkSize THEN <<"P","i","k","a","c","h","u"," ","V"," ","B","o","x">>
               ELSE <<"P","r","o","m","o">>,
   rarity |-> <<"R","a","r","e">>, highestPrice |-> (i * 7) % 13]

CatalogBulk == [cards |-> [i \in 1..BulkSize |-> BulkCard(i)]]

Catalogs == {CatalogA, CatalogB, CatalogEmpty, CatalogBulk}

BodyNoCards == [cards |-> Undefined]

BodyBadNumber == [cards |-> <<CardA, CardBroken>>]

Bodies == Catalogs \cup {Null, BodyNoCards, BodyBadNumber}

QSlash == <<"4","/","1","0","2">>

QSlashMiss == <<"9","/","5">>

QHash == <<"#","4">>

QHashMiss == <<"#","9">>

QSetMiss == <<"x"," ","4">>

QSetHit == <<"B","a","s","e"," ","S","e","t"," ","4">>

QName == <<"c","h","a","r","i","z","a","r","d">>

QPikachu == <<" ","P","i","k","a","c","h","u">>

QPikachuV == <<"p","i","k","a","c","h","u"," ","v">>

QInherited == <<"c","o","n","s","t","r","u","c","t","o","r"," ","4">>

QEmpty == <<>>

QBlank == <<" "," ">>

SearchQueries == {QSlash, QSlashMiss, QHash, QHashMiss, QSetMiss, QSetHit,
                  QName, QPikachu, QPikachuV, QInherited, QEmpty, QBlank}

Limits == (0..MaxLimit) \cup {DefaultLimit}

Pieces == {<<" ">>,
           <<"#">>,
           <<"/">>,
           <<"0">>,
           <<"4">>,
           <<"0","1","2">>,
           <<"S","e","t">>,
           <<"z","z","z","z","z">>}

RECURSIVE Concats(_)
Concats(n) ==
  IF n = 0 THEN {<<>>}
  ELSE LET shorter == Concats(n - 1)
       IN  shorter \cup {s \o p : s \in shorter, p \in Pieces}

\* Queries with a set hint of each kind (a key of the table, a part of an
\* alias, a text holding an alias, a property name of every object) and
\* with several '#' tokens.
ParseSamples ==
  {<<"C","h","a","m","p","i","o","n","s"," ","4">>,
   <<"e","v","o","l","v"," ","#","0","4">>,
   <<"m","y"," ","J","u","n","g","l","e"," "," ","1","2">>,
   <<"c","o","n","s","t","r","u","c","t","o","r"," ","4">>,
   <<"_","_","p","r","o","t","o","_","_"," ","#","7">>,
   <<"#","1","2","3","4"," ","#","5">>,
   <<"m","e","w"," ","#","4"," ","#","0","0","7">>}

ParseInputs == Concats(MaxPieces) \cup ParseSamples

NotParsed == [type |-> "pending"]

(***************************************************************************)
(* loadCardData.                                                           *)
(***************************************************************************)
MaxFetch == 3

NoSearch == [query |-> Undefined]

Init ==
  /\ cardData = Null
  /\ fuseIndex = Null
  /\ cardsByNumber = Null
  /\ loadPromise = Null
  /\ task = [pc |-> "none", outcome |-> "none"]
  /\ callers = [c \in Callers |-> "idle"]
  /\ calls = 0
  /\ fetchCount = 0
  /\ lastSearch = NoSearch
  /\ pq = <<>>
  /\ parsed = NotParsed

\* Variants: no test of loadPromise; a test of the pending load only.
LoadEntryNoJoin == IF cardData # Null THEN "return" ELSE "start"

LoadEntryNoCache ==
  IF loadPromise # Null /\ loadPromise.state = "pending" THEN "join" ELSE "start"

\* Variant: a load that has settled without a catalog is started again.
LoadEntryRetry ==
  IF cardData # Null THEN "return"
  ELSE IF loadPromise # Null /\ loadPromise.state = "pending" THEN "join"
  ELSE "start"

\* What a call does on entry: return at once, join the load in flight, or
\* start the load.
LoadEntry ==
  IF cardData # Null THEN "return"
  ELSE IF loadPromise # Null THEN "join"
  ELSE "start"

loadCardData(c) ==
  /\ callers[c] # "awaiting"
  /\ calls < MaxCalls
  /\ calls' = calls + 1
  /\ \/ /\ LoadEntry = "return"
        /\ callers' = [callers EXCEPT ![c] = "resolved"]
        /\ UNCHANGED <<loadPromise, task, fetchCount>>
     \/ /\ LoadEntry = "join"
        /\ callers' = [callers EXCEPT ![c] = "awaiting"]
        /\ UNCHANGED <<loadPromise, task, fetchCount>>
     \/ /\ LoadEntry = "start"
        /\ fetchCount < MaxFetch
        /\ loadPromise' = [state |-> "pending"]
        /\ task' = [pc |-> "fetching", outcome |-> "none"]
        /\ fetchCount' = fetchCount + 1
        /\ callers' = [callers EXCEPT ![c] = "awaiting"]
  /\ UNCHANGED <<cardData, fuseIndex, cardsByNumber, lastSearch, pq, parsed>>

Snapshot == [cardData |-> cardData, fuseIndex |-> fuseIndex,
             cardsByNumber |-> cardsByNumber]

\* Variant: the number index is never built.
TryParseNoNumberIndex(data, fuzz) ==
  IF data = Null
  THEN [Snapshot EXCEPT !.cardData = Null] @@ [threw |-> FALSE]
  ELSE IF FuseThrows(data)
  THEN [Snapshot EXCEPT !.cardData = data] @@ [threw |-> TRUE]
  ELSE [cardData |-> data, fuseIndex |-> NewFuse(data.cards, fuzz),
        cardsByNumber |-> cardsByNumber, threw |-> FALSE]

\* The body of the try block after response.json() has resolved.
TryParse(data, fuzz) ==
  IF data = Null
  THEN [Snapshot EXCEPT !.cardData = Null] @@ [threw |-> FALSE]
  ELSE IF FuseThrows(data)
  THEN [Snapshot EXCEPT !.cardData = data] @@ [threw |-> TRUE]
  ELSE IF BuildThrows(data.cards)
  THEN [cardData |-> data, fuseIndex |-> NewFuse(data.cards, fuzz),
        cardsByNumber |-> cardsByNumber, threw |-> TRUE]
  ELSE [cardData |-> data, fuseIndex |-> NewFuse(data.cards, fuzz),
        cardsByNumber |-> buildNumberIndex(data.cards), threw |-> FALSE]

\* Variants: the catch block rethrows; the catch block resets nothing.
CatchRethrows(s) ==
  [cardData |-> Null, fuseIndex |-> Null, cardsByNumber |-> Null, rethrow |-> TRUE]

CatchKeepsState(s) ==
  [cardData |-> s.cardData, fuseIndex |-> s.fuseIndex,
   cardsByNumber |-> s.cardsByNumber, rethrow |-> FALSE]

\* The catch block: reset the three globals and swallow the fault.
CatchBlock(s) ==
  [cardData |-> Null, fuseIndex |-> Null, cardsByNumber |-> Null, rethrow |-> FALSE]

\* The loading task ends: its globals are published and loadPromise settles.
Finish(s, rethrow, outcome) ==
  /\ cardData' = s.cardData
  /\ fuseIndex' = s.fuseIndex
  /\ cardsByNumber' = s.cardsByNumber
  /\ loadPromise' = [state |-> IF rethrow THEN "rejected" ELSE "fulfilled"]
  /\ task' = [pc |-> "done", outcome |-> outcome]
  /\ UNCHANGED <<callers, calls, fetchCount, lastSearch, pq, parsed>>

Outcome(data) ==
  IF data = Null THEN "nullBody"
  ELSE IF data = BodyNoCards THEN "fuseThrew"
  ELSE IF data = BodyBadNumber THEN "indexThrew"
  ELSE "loaded"

Caught(r, outcome) == Finish(r, r.rethrow, outcome)

Parsed(t, outcome) ==
  IF t.threw THEN Caught(CatchBlock(t), outcome) ELSE Finish(t, FALSE, outcome)

FetchRejected ==
  /\ task.pc = "fetching"
  /\ Caught(CatchBlock(Snapshot), "fetchRejected")

FetchNotOk ==
  /\ task.pc = "fetching"
  /\ Finish(Snapshot, FALSE, "notOk")

FetchOk ==
  /\ task.pc = "fetching"
  /\ task' = [task EXCEPT !.pc = "parsing"]
  /\ UNCHANGED <<cardData, fuseIndex, cardsByNumber, loadPromise, callers,
                 calls, fetchCount, lastSearch, pq, parsed>>

JsonRejected ==
  /\ task.pc = "parsing"
  /\ Caught(CatchBlock(Snapshot), "jsonRejected")

JsonResolved ==
  /\ task.pc = "parsing"
  /\ \E data \in Bodies, fuzz \in 0..MaxFuzz : Parsed(TryParse(data, fuzz), Outcome(data))

\* Variant: the continuation runs without waiting for the promise.
ResumeEarly(c) ==
  /\ callers[c] = "awaiting"
  /\ loadPromise # Null
  /\ callers' = [callers EXCEPT ![c] = "resolved"]
  /\ UNCHANGED <<cardData, fuseIndex, cardsByNumber, loadPromise, task,
                 calls, fetchCount, lastSearch, pq, parsed>>

\* The continuation of `await loadPromise' in a caller.
Resume(c) ==
  /\ callers[c] = "awaiting"
  /\ loadPromise # Null
  /\ loadPromise.state # "pending"
  /\ callers' = [callers EXCEPT ![c] =
                   IF loadPromise.state = "rejected" THEN "rejected" ELSE "resolved"]
  /\ UNCHANGED <<cardData, fuseIndex, cardsByNumber, loadPromise, task,
                 calls, fetchCount, lastSearch, pq, parsed>>

\* A synchronous call of smartSearch; lastSearch holds what it returned until
\* its caller goes on.
Returned(q, limit, r) ==
  /\ lastSearch' = [query |-> q, limit |-> limit, result |-> r.result,
                    ranked |-> r.ranked, type |-> r.type, structural |-> r.structural,
                    nameSearches |-> r.nameSearches, threw |-> r.threw,
                    warned |-> r.warned, phase |-> task.outcome, at |-> task.pc]
  /\ cardsByNumber' = r.index

\* The calls of smartSearch with the query q, r being Ranked(q).
Called(q, r) == \E limit \in Limits : Returned(q, limit, Truncate(r, limit))

Search ==
  /\ lastSearch = NoSearch
  /\ \E q \in SearchQueries : Called(q, Ranked(cardsByNumber, q))
  /\ UNCHANGED <<cardData, fuseIndex, loadPromise, task, callers,
                 calls, fetchCount, pq, parsed>>

SearchReturn ==
  /\ lastSearch # NoSearch
  /\ lastSearch' = NoSearch
  /\ UNCHANGED <<cardData, fuseIndex, cardsByNumber, loadPromise, task,
                 callers, calls, fetchCount, pq, parsed>>

Next ==
  \/ \E c \in Callers : loadCardData(c)
  \/ FetchRejected
  \/ FetchNotOk
  \/ FetchOk
  \/ JsonRejected
  \/ JsonResolved
  \/ \E c \in Callers : Resume(c)
  \/ Search
  \/ SearchReturn

Spec == Init /\ [][Next]_vars

(***************************************************************************)
(* The classifier on its own: the input is drawn from ParseInputs and      *)
(* parseQuery is applied to it.                                            *)
(***************************************************************************)
InitParse ==
  /\ cardData = Null
  /\ fuseIndex = Null
  /\ cardsByNumber = Null
  /\ loadPromise = Null
  /\ task = [pc |-> "none", outcome |-> "none"]
  /\ callers = [c \in Callers |-> "idle"]
  /\ calls = 0
  /\ fetchCount = 0
  /\ lastSearch = NoSearch
  /\ pq \in ParseInputs
  /\ parsed = NotParsed

Classify ==
  /\ parsed = NotParsed
  /\ parsed' = parseQuery(pq)
  /\ UNCHANGED <<cardData, fuseIndex, cardsByNumber, loadPromise, task,
                 callers, calls, fetchCount, lastSearch, pq>>

NextParse == Classify

SpecParse == InitParse /\ [][NextParse]_vars

(***************************************************************************)
(* Properties of the loader.                                               *)
(***************************************************************************)
Unloaded == cardData = Null /\ fuseIndex = Null /\ cardsByNumber = Null

Populated == cardData # Null /\ fuseIndex # Null /\ cardsByNumber # Null

Awaiting == {c \in Callers : callers[c] = "awaiting"}

FailedFetch == {"fetchRejected", "notOk"}

ParseFaults == {"jsonRejected", "fuseThrew", "indexThrew"}

\* C1: while the first load has not settled, however many calls of
\* loadCardData were issued, exactly one fetch was started, the one
\* loadPromise is pending and every call made so far is awaiting it.
C1_SingleFlight ==
  (calls >= 1 /\ task.pc # "done") =>
    /\ fetchCount = 1
    /\ loadPromise = [state |-> "pending"]
    /\ Cardinality(Awaiting) = calls

C1_Witness ==
  /\ task.pc \in {"fetching", "parsing"}
  /\ calls >= 2
  /\ Cardinality(Awaiting) >= 2
  /\ fetchCount = 1

\* C2: a call of loadCardData made after a call has resolved on a
\* successful load starts no fetch and leaves the catalog, the fuzzy index,
\* the number index and the finished loading task as they were.
C2_IdempotentLoad ==
  [][(/\ calls' = calls + 1
      /\ task.outcome = "loaded"
      /\ \E c \in Callers : callers[c] = "resolved")
     => /\ fetchCount' = fetchCount
        /\ cardData' = cardData
        /\ fuseIndex' = fuseIndex
        /\ cardsByNumber' = cardsByNumber
        /\ loadPromise' = loadPromise
        /\ task' = task]_vars

C2_Witness ==
  /\ task.outcome = "loaded"
  /\ calls >= 2
  /\ fetchCount = 1
  /\ \E c \in Callers :
       /\ callers[c] = "resolved"
       /\ \A d \in Callers \ {c} : callers[d] = "idle"

\* The entries of a bucket, as a set.
Entries(bucket) == {bucket[j] : j \in 1..Len(bucket)}

\* The number index holds exactly the cards of the catalog (which are
\* pairwise different), each once and under the key of its normalized
\* number.
IndexOf(index, cards) ==
  LET all == Entries(cards)
  IN  /\ \A card \in all :
           LET k == normalizeCardNumber(card.number)
           IN  k \in DOMAIN index.buckets /\ card \in Entries(index.buckets[k])
      /\ \A k \in DOMAIN index.buckets :
           LET held == Entries(index.buckets[k])
           IN  /\ Len(index.buckets[k]) = Cardinality(held)
               /\ held # {}
               /\ held \subseteq all
               /\ \A card \in held : normalizeCardNumber(card.number) = k

\* C3: in every state the catalog, the fuzzy index and the number index are
\* all null or all populated; when populated both indexes are over the
\* cards of that same catalog, and a search that got past the not-ready
\* test ran on a loaded state.
C3_AllOrNothing ==
  /\ \/ Unloaded
     \/ /\ Populated
        /\ fuseIndex.docs = cardData.cards
        /\ IndexOf(cardsByNumber, cardData.cards)
  /\ (lastSearch # NoSearch /\ ~lastSearch.warned) => lastSearch.phase = "loaded"

C3_Witness ==
  /\ task.outcome = "indexThrew"
  /\ Unloaded
  /\ lastSearch # NoSearch
  /\ lastSearch.phase = "indexThrew"

\* C4: a smartSearch call made while no load has succeeded (none started,
\* one in flight, or one failed) returns the empty sequence and does not
\* throw, whatever the query and the limit.
C4_NotReadyIsEmpty ==
  (lastSearch # NoSearch /\ lastSearch.phase # "loaded") =>
    (lastSearch.result = <<>> /\ ~lastSearch.threw)

C4_Witness ==
  /\ lastSearch # NoSearch
  /\ lastSearch.at = "parsing"
  /\ lastSearch.query = QSlash
  /\ lastSearch.limit = DefaultLimit

\* C5: after a fetch that was rejected or answered with a non-success
\* response, loadPromise is fulfilled, no caller sees a rejection, the three
\* globals are null and a search made from then on returns nothing.
C5_UnavailableData ==
  task.outcome \in FailedFetch =>
    /\ loadPromise = [state |-> "fulfilled"]
    /\ \A c \in Callers : callers[c] # "rejected"
    /\ Unloaded
    /\ (lastSearch # NoSearch /\ lastSearch.phase \in FailedFetch)
         => (lastSearch.result = <<>> /\ ~lastSearch.threw)

C5_Witness ==
  /\ task.outcome = "fetchRejected"
  /\ \E c \in Callers : callers[c] = "resolved"
  /\ lastSearch # NoSearch
  /\ lastSearch.phase = "fetchRejected"
  /\ lastSearch.query = QName

\* C6 as stated: a fault while parsing the fetched body or building the
\* indexes rejects the promise of loadCardData.
C6_FaultPropagates ==
  task.outcome \in ParseFaults => loadPromise = [state |-> "rejected"]

\* C6 amended: a fault while parsing the fetched body or building the
\* indexes is caught inside the load: loadPromise is fulfilled, no caller
\* sees a rejection, the three globals are reset to null and searches see
\* only that null state.
C6_FaultSwallowed ==
  task.outcome \in ParseFaults =>
    /\ loadPromise = [state |-> "fulfilled"]
    /\ \A c \in Callers : callers[c] # "rejected"
    /\ Unloaded
    /\ (lastSearch # NoSearch /\ lastSearch.phase \in ParseFaults)
         => (lastSearch.result = <<>> /\ ~lastSearch.threw)

C6_Witness ==
  /\ task.outcome = "indexThrew"
  /\ \A c \in Callers : callers[c] = "resolved"
  /\ lastSearch = NoSearch

(***************************************************************************)
(* Properties of the search engine.                                        *)
(***************************************************************************)
\* The first n entries of s.
FirstN(s, n) == [i \in 1..(IF n < Len(s) THEN n ELSE Len(s)) |-> s[i]]

NumberPathEmpty ==
  /\ lastSearch # NoSearch
  /\ lastSearch.type \in {"card-number", "set-number"}
  /\ ~lastSearch.threw
  /\ lastSearch.structural = <<>>

\* C7 as stated: when the number path of a card-number or set-number query
\* is empty, smartSearch returns the name search of the original query
\* truncated to limit, and so returns nothing only if that name search
\* finds nothing; a name query runs one name search.
C7_FallbackLaw ==
  /\ NumberPathEmpty =>
       /\ lastSearch.result = FirstN(searchByName(lastSearch.query), lastSearch.limit)
       /\ lastSearch.result = <<>> => searchByName(lastSearch.query) = <<>>
  /\ (lastSearch # NoSearch /\ lastSearch.type = "name") => lastSearch.nameSearches = 1

\* C7 amended: the same, the emptiness consequence being claimed for a limit
\* of at least 1 (a limit of 0 truncates every result to nothing).
C7_FallbackLawPositiveLimit ==
  /\ NumberPathEmpty =>
       /\ lastSearch.result = FirstN(searchByName(lastSearch.query), lastSearch.limit)
       /\ lastSearch.nameSearches = 1
       /\ (lastSearch.limit >= 1 /\ lastSearch.result = <<>>)
            => searchByName(lastSearch.query) = <<>>
  /\ (lastSearch # NoSearch /\ lastSearch.type = "name") => lastSearch.nameSearches = 1

C7_Witness ==
  /\ NumberPathEmpty
  /\ lastSearch.query = QSlashMiss
  /\ lastSearch.type = "card-number"
  /\ lastSearch.limit = 1
  /\ lastSearch.result = <<CardC>>

\* C8: on a loaded catalog, whatever searches have run, every bucket of the
\* number index is as the build left it, its cards in catalog order.
C8_SearchIsPureRead ==
  Populated => cardsByNumber = buildNumberIndex(cardData.cards)

(***************************************************************************)
(* Properties of the classifier.                                           *)
(***************************************************************************)
\* text is left "/" right with 1 to 3 digits on each side.
IsSlashForm(text, left, right) ==
  /\ text = left \o <<"/">> \o right
  /\ Len(left) \in 1..3 /\ AllDigits(left)
  /\ Len(right) \in 1..3 /\ AllDigits(right)

\* n is digits without its leading zeros, "0" if nothing else is left.
IsStripped(n, digits) ==
  /\ Len(n) >= 1
  /\ Len(n) <= Len(digits)
  /\ n = SubSeq(digits, Len(digits) - Len(n) + 1, Len(digits))
  /\ \A i \in 1..(Len(digits) - Len(n)) : digits[i] = "0"
  /\ n[1] # "0" \/ n = <<"0">>

SlashSplits(text) ==
  {k \in 1..(Len(text) - 1) :
     IsSlashForm(text, SubSeq(text, 1, k), SubSeq(text, k + 2, Len(text)))}

\* C9: a query whose trimmed lower-cased text is digits/digits (1 to 3 each)
\* classifies as card-number with the left digits without leading zeros as
\* number and the right digits unchanged as set size; no other query
\* classifies as card-number.
C9_SlashForm ==
  parsed # NotParsed =>
    LET text == toLowerCase(trim(pq))
    IN  IF SlashSplits(text) # {}
        THEN /\ parsed.type = "card-number"
             /\ \A k \in SlashSplits(text) :
                  /\ IsStripped(parsed.cardNumber, SubSeq(text, 1, k))
                  /\ parsed.setSize = SubSeq(text, k + 2, Len(text))
        ELSE parsed.type # "card-number"

C9_Witness ==
  /\ pq = <<"0", "4", "/", "0", "1", "2">>
  /\ parsed # NotParsed
  /\ parsed.type = "card-number"
  /\ parsed.cardNumber = <<"4">>
  /\ parsed.setSize = <<"0", "1", "2">>

\* C10: every input, the empty and the blank ones included, is classified
\* as one of card-number, set-number and name; a card-number or set-number
\* result carries a number of 1 to 3 digits without leading zero (or "0"),
\* and every result carries the raw input as originalQuery.
C10_TotalWellFormed ==
  parsed # NotParsed =>
    /\ parsed.type \in {"card-number", "set-number", "name"}
    /\ parsed.originalQuery = pq
    /\ parsed.type \in {"card-number", "set-number"} =>
         /\ Len(parsed.cardNumber) \in 1..3
         /\ AllDigits(parsed.cardNumber)
         /\ parsed.cardNumber[1] # "0" \/ parsed.cardNumber = <<"0">>

C10_Witness ==
  /\ pq = <<" ", "#", "0", "0">>
  /\ parsed # NotParsed
  /\ parsed.type = "set-number"
  /\ parsed.cardNumber = <<"0">>
  /\ parsed.originalQuery = pq

(***************************************************************************)
(* normalizeCardNumber on its own: the input is drawn from NumberInputs    *)
(* and the function is applied to it; pq holds the argument and parsed     *)
(* the value returned.                                                     *)
(***************************************************************************)
MaxNumLen == 4

NumberChars == {"0", "2", "4", "5", "/", "S"}

RECURSIVE Strings(_, _)
Strings(chars, n) ==
  IF n = 0 THEN {<<>>}
  ELSE LET shorter == Strings(chars, n - 1)
       IN  shorter \cup {Append(s, ch) : s \in shorter, ch \in chars}

NumberInputs == Strings(NumberChars, MaxNumLen)

InitNormalize ==
  /\ cardData = Null
  /\ fuseIndex = Null
  /\ cardsByNumber = Null
  /\ loadPromise = Null
  /\ task = [pc |-> "none", outcome |-> "none"]
  /\ callers = [c \in Callers |-> "idle"]
  /\ calls = 0
  /\ fetchCount = 0
  /\ lastSearch = NoSearch
  /\ pq \in NumberInputs
  /\ parsed = NotParsed

Normalize ==
  /\ parsed = NotParsed
  /\ parsed' = [type |-> "normalized", value |-> normalizeCardNumber(pq)]
  /\ UNCHANGED <<cardData, fuseIndex, cardsByNumber, loadPromise, task,
                 callers, calls, fetchCount, lastSearch, pq>>

NextNormalize == Normalize

SpecNormalize == InitNormalize /\ [][NextNormalize]_vars

\* The longest prefix of s made of digits only.
LeadingDigits(s) ==
  SubSeq(s, 1, SetMax({n \in 0..Len(s) : \A i \in 1..n : IsDigit(s[i])}))

\* C11: normalize of an input that starts with a digit run is that run
\* without its leading zeros ("0" when the run is all zeros), whatever
\* follows the run; an input that does not start with a digit, the empty
\* input included, is returned unchanged.
C11_Normalize ==
  parsed # NotParsed =>
    IF LeadingDigits(pq) = <<>>
    THEN parsed.value = pq
    ELSE IsStripped(parsed.value, LeadingDigits(pq))

C11_Witness ==
  /\ pq = <<"0","2","5","/">>
  /\ parsed # NotParsed
  /\ parsed.value = <<"2","5">>

(***************************************************************************)
(* Properties of the dispatch.                                             *)
(***************************************************************************)
\* The trimmed, lower-cased text of the query of the last search.
LastText == trim(toLowerCase(lastSearch.query))

\* number is <one part without a slash> "/" size.
HasSetSize(number, size) ==
  \E k \in 1..Len(number) :
    /\ number[k] = "/"
    /\ \A i \in 1..(k - 1) : number[i] # "/"
    /\ SubSeq(number, k + 1, Len(number)) = size

CatalogCards == {cardData.cards[i] : i \in 1..Len(cardData.cards)}

\* s lists the cards of set S, each once, by highestPrice descending.
RanksByPrice(s, S) ==
  /\ Len(s) = Cardinality(S)
  /\ {s[i] : i \in 1..Len(s)} = S
  /\ \A i, j \in 1..Len(s) : i < j => s[i].highestPrice >= s[j].highestPrice

\* C12: a slash query N/S whose number path is not empty returns exactly the
\* cards of the bucket of normalize(N) whose number has S, as a string,
\* after its "/", by highestPrice descending, truncated to limit.
C12_CardNumberDispatch ==
  (lastSearch # NoSearch /\ lastSearch.type = "card-number"
     /\ lastSearch.structural # <<>>) =>
    \A k \in SlashSplits(LastText) :
      /\ RanksByPrice(lastSearch.structural,
           {card \in CatalogCards :
              /\ normalizeCardNumber(card.number)
                   = normalizeCardNumber(SubSeq(LastText, 1, k))
              /\ HasSetSize(card.number, SubSeq(LastText, k + 2, Len(LastText)))})
      /\ lastSearch.result = FirstN(lastSearch.structural, lastSearch.limit)

C12_Witness ==
  /\ lastSearch # NoSearch
  /\ lastSearch.query = QSlash
  /\ lastSearch.limit = DefaultLimit
  /\ cardData = CatalogA
  /\ lastSearch.result = <<CardB, CardA>>

\* The cards a set-number query p selects: the bucket of its number, narrowed
\* to the sets matching its hint when it has one.
SetNumberCards(p) ==
  {card \in CatalogCards :
     /\ normalizeCardNumber(card.number) = normalizeCardNumber(p.cardNumber)
     /\ (p.setHint # Undefined /\ p.setHint # <<>>)
          => matchSetName(p.setHint, card.setName)}

\* C13: a set-number query whose number path is not empty returns exactly
\* the cards of the bucket of its normalized number, those of a set matching
\* the hint when there is a hint and the whole bucket when there is none, by
\* highestPrice descending, truncated to limit.
C13_SetNumberDispatch ==
  (lastSearch # NoSearch /\ lastSearch.type = "set-number"
     /\ lastSearch.structural # <<>>) =>
    /\ RanksByPrice(lastSearch.structural, SetNumberCards(parseQuery(lastSearch.query)))
    /\ lastSearch.result = FirstN(lastSearch.structural, lastSearch.limit)

C13_Witness ==
  /\ lastSearch # NoSearch
  /\ lastSearch.query = QSetHit
  /\ lastSearch.type = "set-number"
  /\ parseQuery(QSetHit).setHint = <<"b","a","s","e"," ","s","e","t">>
  /\ lastSearch.limit = DefaultLimit
  /\ cardData = CatalogA
  /\ lastSearch.result = <<CardB, CardA>>

C13_WitnessNoHint ==
  /\ lastSearch # NoSearch
  /\ lastSearch.query = QHash
  /\ lastSearch.type = "set-number"
  /\ lastSearch.limit = DefaultLimit
  /\ cardData = CatalogA
  /\ lastSearch.result = <<CardB, CardF, CardA, CardE>>

(***************************************************************************)
(* Properties of the name search.                                          *)
(***************************************************************************)
NameHas(card, lower) == includes(toLowerCase(card.name), lower)

NameIs(card, lower) == toLowerCase(card.name) = lower

\* In s, among the cards whose name contains lower, those whose name is
\* lower come first, and each of the two groups is by highestPrice
\* descending.
\* Both orders being transitive, they are stated of the neighbours in the
\* list of those cards.
ExactThenPrice(s, lower) ==
  LET hits == SelectSeq(s, LAMBDA card : NameHas(card, lower))
  IN  \A i \in 1..(Len(hits) - 1) :
        /\ NameIs(hits[i + 1], lower) => NameIs(hits[i], lower)
        /\ (NameIs(hits[i], lower) <=> NameIs(hits[i + 1], lower))
             => hits[i].highestPrice >= hits[i + 1].highestPrice

\* C14: the name search lists every card whose lower-cased name contains the
\* trimmed lower-cased query, the cards whose name equals it before the
\* cards whose name merely contains it whatever their prices, and each of
\* the two groups by highestPrice descending.
C14_ExactFirst ==
  (lastSearch # NoSearch /\ lastSearch.nameSearches = 1) =>
    /\ ExactThenPrice(lastSearch.ranked, LastText)
    /\ {card \in CatalogCards : NameHas(card, LastText)}
         \subseteq {lastSearch.ranked[i] : i \in 1..Len(lastSearch.ranked)}

C14_Witness ==
  /\ lastSearch # NoSearch
  /\ lastSearch.query = QPikachu
  /\ lastSearch.limit = DefaultLimit
  /\ cardData = CatalogA
  /\ CardE.highestPrice < CardF.highestPrice
  /\ lastSearch.result = <<CardE, CardF>>

\* C15: whatever the query and the limit (50 when none is given), smartSearch
\* returns at most limit cards, and they are the first limit entries of the
\* ranked result, in the same order.
C15_Truncation ==
  lastSearch # NoSearch =>
    /\ Len(lastSearch.result) <= lastSearch.limit
    /\ lastSearch.result = FirstN(lastSearch.ranked, lastSearch.limit)

C15_Witness ==
  /\ lastSearch # NoSearch
  /\ lastSearch.query = QPikachu
  /\ lastSearch.limit = DefaultLimit
  /\ Len(lastSearch.ranked) > DefaultLimit
  /\ Len(lastSearch.result) = DefaultLimit

C15_WitnessSmallLimit ==
  /\ lastSearch # NoSearch
  /\ lastSearch.query = QHash
  /\ lastSearch.limit = 2
  /\ cardData = CatalogA
  /\ lastSearch.result = <<CardB, CardF>>

\* C16: on a loaded catalog a query that is empty or made of white space
\* returns the empty sequence, and neither the classifier nor the number
\* path nor a name search has run.
C16_EmptyQuery ==
  (lastSearch # NoSearch /\ lastSearch.phase = "loaded"
     /\ \A i \in 1..Len(lastSearch.query) : IsSpace(lastSearch.query[i])) =>
    /\ lastSearch.result = <<>>
    /\ lastSearch.type = "none"
    /\ lastSearch.structural = <<>>
    /\ lastSearch.nameSearches = 0
    /\ ~lastSearch.warned
    /\ ~lastSearch.threw

C16_Witness ==
  /\ lastSearch # NoSearch
  /\ lastSearch.query = QBlank
  /\ cardData = CatalogA
  /\ lastSearch.type = "none"
  /\ lastSearch.result = <<>>

\* C18: in every state isDataLoaded() is true exactly when the catalog, the
\* fuzzy index and the number index are all populated, which is exactly when
\* a smartSearch call would not take its not-ready branch.
C18_IsReady ==
  /\ isDataLoaded <=> Populated
  /\ isDataLoaded <=> ~smartSearch(QEmpty, DefaultLimit).warned

C18_Witness ==
  /\ isDataLoaded
  /\ cardsByNumber # Null
  /\ lastSearch # NoSearch
  /\ ~lastSearch.warned

C18_WitnessNotReady ==
  /\ ~isDataLoaded
  /\ loadPromise # Null
  /\ lastSearch # NoSearch
  /\ lastSearch.warned

\* The cards of the catalog whose lower-cased name contains lower.
Containing(lower) == {card \in CatalogCards : NameHas(card, lower)}

\* C20: when ten cards or more have a name containing the query, the name
\* search returns exactly those cards, exact names first and by price, and
\* appends no fuzzy result: every returned name contains the query.
C20_SufficientExact ==
  (lastSearch # NoSearch /\ lastSearch.nameSearches = 1
     /\ Cardinality(Containing(LastText)) >= 10) =>
    /\ Len(lastSearch.ranked) = Cardinality(Containing(LastText))
    /\ {lastSearch.ranked[i] : i \in 1..Len(lastSearch.ranked)} = Containing(LastText)
    /\ ExactThenPrice(lastSearch.ranked, LastText)
    /\ \A i \in 1..Len(lastSearch.result) : NameHas(lastSearch.result[i], LastText)

C20_Witness ==
  /\ lastSearch # NoSearch
  /\ lastSearch.query = QPikachuV
  /\ lastSearch.limit = DefaultLimit
  /\ cardData = CatalogBulk
  /\ Len(lastSearch.result) = 10
  /\ Len(FuseSearch(fuseIndex, QPikachuV, 100)) > 10

(***************************************************************************)
(* buildNumberIndex on its own: the input is a list of at most MaxCards    *)
(* different cards drawn from IndexCards; pq holds the list and parsed the *)
(* index built from it.                                                    *)
(***************************************************************************)
MaxCards == 3

CardG ==
  [id |-> <<"g">>, name |-> <<"M","e","w">>,
   number |-> <<"0","4">>,
   setName |-> <<"F","o","s","s","i","l">>,
   rarity |-> <<"R","a","r","e">>, highestPrice |-> 40]

CardNoNumber ==
  [id |-> <<"n">>, name |-> <<"D","i","t","t","o">>,
   number |-> <<>>,
   setName |-> <<"F","o","s","s","i","l">>,
   rarity |-> <<"C","o","m","m","o","n">>, highestPrice |-> 1]

IndexCards == {CardA, CardC, CardD, CardE, CardF, CardG, CardNoNumber}

RECURSIVE CardLists(_)
CardLists(n) ==
  IF n = 0 THEN {<<>>}
  ELSE LET shorter == CardLists(n - 1)
       IN  shorter \cup {Append(s, card) : s \in shorter,
                                           card \in IndexCards}

IndexInputs ==
  {s \in CardLists(MaxCards) : \A i, j \in 1..Len(s) : s[i] = s[j] => i = j}

InitIndex ==
  /\ cardData = Null
  /\ fuseIndex = Null
  /\ cardsByNumber = Null
  /\ loadPromise = Null
  /\ task = [pc |-> "none", outcome |-> "none"]
  /\ callers = [c \in Callers |-> "idle"]
  /\ calls = 0
  /\ fetchCount = 0
  /\ lastSearch = NoSearch
  /\ pq \in IndexInputs
  /\ parsed = NotParsed

BuildIndex ==
  /\ parsed = NotParsed
  /\ parsed' = [type |-> "index", value |-> buildNumberIndex(pq)]
  /\ UNCHANGED <<cardData, fuseIndex, cardsByNumber, loadPromise, task,
                 callers, calls, fetchCount, lastSearch, pq>>

NextIndex == BuildIndex

SpecIndex == InitIndex /\ [][NextIndex]_vars

\* The key of a number: its leading digits without their leading zeros, the
\* number itself when it does not start with a digit.
KeyOf(num) ==
  IF LeadingDigits(num) = <<>> THEN num
  ELSE CHOOSE n \in {SubSeq(LeadingDigits(num), k, Len(LeadingDigits(num))) :
                       k \in 1..Len(LeadingDigits(num))} \cup {<<"0">>} :
         IsStripped(n, LeadingDigits(num))

\* The places of card in the buckets: pairs <<key, position>>.
PlacesOf(buckets, card) ==
  {<<k, j>> \in {<<k, j>> : k \in DOMAIN buckets, j \in 1..MaxCards + 1} :
     j <= Len(buckets[k]) /\ buckets[k][j] = card}

\* C19: after the build every card of the catalog is in exactly one bucket,
\* the one keyed by normalize of its number (the empty string for a card
\* with an empty number), no bucket holds a card that is not in
\* the catalog, and the cards of a bucket are in catalog order.
C19_IndexPartition ==
  parsed # NotParsed =>
    LET buckets == parsed.value.buckets
    IN  /\ \A i \in 1..Len(pq) :
             /\ Cardinality(PlacesOf(buckets, pq[i])) = 1
             /\ \A pl \in PlacesOf(buckets, pq[i]) : pl[1] = KeyOf(pq[i].number)
        /\ \A k \in DOMAIN buckets :
             /\ \A j \in 1..Len(buckets[k]) : \E i \in 1..Len(pq) : pq[i] = buckets[k][j]
             /\ buckets[k] = SelectSeq(pq, LAMBDA card : KeyOf(card.number) = k)

C19_Witness ==
  /\ pq = <<CardNoNumber, CardG, CardA>>
  /\ parsed # NotParsed
  /\ parsed.value.buckets = (<<>> :> <<CardNoNumber>>) @@ (<<"4">> :> <<CardG, CardA>>)

\* The text the name search of the last call was given: the trimmed query of
\* a name query, the query as typed in the fallback.
NameText ==
  IF lastSearch.type = "name" THEN trim(lastSearch.query) ELSE lastSearch.query

Ids(S) == {card.id : card \in S}

\* s is the exact matches S, exact names first and by price, followed by
\* the fuzzy results that are not among them, in the order of fuzzy.
Supplemented(s, S, fuzzy) ==
  /\ Len(s) >= Cardinality(S)
  /\ Entries(FirstN(s, Cardinality(S))) = S
  /\ ExactThenPrice(FirstN(s, Cardinality(S)), LastText)
  /\ SubSeq(s, Cardinality(S) + 1, Len(s))
       = SelectSeq(fuzzy, LAMBDA card : card.id \notin Ids(S))

\* C21: when 1 to 9 cards have a name containing the query, the name search
\* returns them all, sorted, before the results of the fuzzy index (limit
\* 100, searched with the text as given) whose id is not among them, in the
\* order of the fuzzy index; when no name contains the query the result is
\* the result of the fuzzy index.
C21_FuzzySupplement ==
  (lastSearch # NoSearch /\ lastSearch.nameSearches = 1) =>
    /\ Containing(LastText) = {}
         => lastSearch.ranked = FuseSearch(fuseIndex, NameText, 100)
    /\ Cardinality(Containing(LastText)) \in 1..9
         => Supplemented(lastSearch.ranked, Containing(LastText),
                         FuseSearch(fuseIndex, NameText, 100))

C21_Witness ==
  /\ lastSearch # NoSearch
  /\ lastSearch.query = QName
  /\ lastSearch.limit = DefaultLimit
  /\ cardData = CatalogB
  /\ CardH.highestPrice > CardB.highestPrice
  /\ lastSearch.result = <<CardB, CardA, CardH>>


(***************************************************************************)
(* Properties of the later rules of the classifier.                        *)
(***************************************************************************)
\* rest is white space, an optional "#" and then 1 to 3 digits.
IsTrail(rest, digits) ==
  \E w \in 1..Len(rest) : \E h \in {0, 1} :
    /\ Len(rest) = w + h + Len(digits)
    /\ Len(digits) \in 1..3 /\ AllDigits(digits)
    /\ \A i \in 1..w : IsSpace(rest[i])
    /\ h = 1 => rest[w + 1] = "#"
    /\ digits = SubSeq(rest, w + h + 1, Len(rest))

\* The places after which the text ends in a trailing number.
TrailSplits(text) ==
  {k \in 1..(Len(text) - 2) :
     \E d \in 1..3 :
       d <= Len(text) - k - 1 /\
       IsTrail(SubSeq(text, k + 1, Len(text)),
               SubSeq(text, Len(text) - d + 1, Len(text)))}

\* The trailing digits of a text that ends in a trailing number after its
\* first k characters.
TrailNumber(text, k) ==
  CHOOSE digits \in {SubSeq(text, Len(text) - d + 1, Len(text)) :
                       d \in 1..(Len(text) - k - 1)} :
    IsTrail(SubSeq(text, k + 1, Len(text)), digits)

TableKeys == {SET_ABBREVIATIONS[k].key : k \in 1..Len(SET_ABBREVIATIONS)}

TableAliases ==
  UNION {Entries(SET_ABBREVIATIONS[k].aliases) : k \in 1..Len(SET_ABBREVIATIONS)}

\* The four conditions under which a prefix counts as a set hint.
LikelyPrefix(prefix) ==
  \/ prefix \in TableKeys
  \/ \E a \in TableAliases : includes(a, prefix) \/ includes(prefix, a)
  \/ includes(prefix, <<"s","e","t">>)
  \/ Len(prefix) <= 4

\* The text holds "#", 1 to 3 digits and then white space or its end.
HasHashToken(text) ==
  \E i \in 1..Len(text) : \E d \in 1..3 :
    /\ text[i] = "#"
    /\ i + d <= Len(text)
    /\ AllDigits(SubSeq(text, i + 1, i + d))
    /\ i + d = Len(text) \/ IsSpace(text[i + d + 1])

\* C22: a query that is not of the slash form and whose trimmed lower-cased
\* text is a prefix, white space, an optional "#" and 1 to 3 digits (the
\* prefix as short as possible) classifies by the trailing-number rule, as
\* set-number with the prefix as set hint and the digits without leading
\* zeros as number, if and only if the prefix is a key of the abbreviation
\* table, is a substring of or contains some alias, contains "set", or has
\* at most 4 characters; a rejected query goes on to the hash-anywhere rule
\* and then to the name default.
C22_TrailingNumber ==
  parsed # NotParsed =>
    LET text == toLowerCase(trim(pq))
    IN  (SlashSplits(text) = {} /\ TrailSplits(text) # {}) =>
          LET k      == SetMin(TrailSplits(text))
              prefix == SubSeq(text, 1, k)
          IN  IF LikelyPrefix(prefix)
              THEN /\ parsed.type = "set-number"
                   /\ parsed.setHint = prefix
                   /\ IsStripped(parsed.cardNumber, TrailNumber(text, k))
              ELSE IF HasHashToken(text)
              THEN parsed.type = "set-number"
              ELSE parsed.type = "name" /\ parsed.nameQuery = trim(pq)


\* The places i and lengths d of the tokens "#" plus d digits (1 to 3) that
\* are followed by white space or the end of the text.
HashTokens(text) ==
  {t \in (1..Len(text)) \X (1..3) :
     /\ text[t[1]] = "#"
     /\ t[1] + t[2] <= Len(text)
     /\ AllDigits(SubSeq(text, t[1] + 1, t[1] + t[2]))
     /\ t[1] + t[2] = Len(text) \/ IsSpace(text[t[1] + t[2] + 1])}

\* The leftmost such token.
FirstHashToken(text) ==
  CHOOSE t \in HashTokens(text) : \A u \in HashTokens(text) : t[1] <= u[1]

\* The query is passed on by the slash rule and by the trailing-number rule.
ReachesHashRule(text) ==
  /\ SlashSplits(text) = {}
  /\ TrailSplits(text) # {} => ~isLikelySet(SubSeq(text, 1, SetMin(TrailSplits(text))))

\* C23: a query that reaches the hash-anywhere rule and contains "#", 1 to 3
\* digits and then white space or the end classifies as set-number, its
\* number the digits of that token without leading zeros, its set hint and
\* name query the lower-cased query with that same token removed and
\* trimmed, the hint absent when nothing remains: the hint never still
\* contains the token whose digits were extracted, also when the query
\* holds several "#"-digit runs.
C23_HashAnywhere ==
  parsed # NotParsed =>
    LET text == toLowerCase(trim(pq))
    IN  (ReachesHashRule(text) /\ HashTokens(text) # {}) =>
          LET i    == FirstHashToken(text)[1]
              d    == FirstHashToken(text)[2]
              rest == trim(SubSeq(text, 1, i - 1) \o SubSeq(text, i + d + 1, Len(text)))
          IN  /\ parsed.type = "set-number"
              /\ IsStripped(parsed.cardNumber, SubSeq(text, i + 1, i + d))
              /\ parsed.nameQuery = rest
              /\ parsed.setHint = (IF rest = <<>> THEN Undefined ELSE rest)


(***************************************************************************)
(* matchSetName on its own: pq holds the two arguments and parsed the      *)
(* outcome of the call, a value returned or an exception.                  *)
(***************************************************************************)
UpperTable ==
  [c \in {LowerChars[k] : k \in 1..26} |->
     UpperChars[CHOOSE k \in 1..26 : LowerChars[k] = c]]

toUpperCase(s) ==
  [i \in 1..Len(s) |-> IF s[i] \in DOMAIN UpperTable THEN UpperTable[s[i]] ELSE s[i]]

HintInputs ==
  {<<"b","a","s","e">>,
   <<"S","h","a","d","o","w","l","e","s","s">>,
   <<"J","U","N","G","L","E">>,
   <<"n","e","o">>,
   <<"D","e","s","t","i","n","y">>,
   <<"r","o","c","k","e","t">>,
   <<"s","w","s","h">>,
   <<"S","E","T">>,
   <<"e","v","o","l","v","i","n","g">>,
   <<"s","k","i","e","s">>,
   <<"c","h","a","m","p","i","o","n","s">>,
   <<"z","z">>,
   <<"c","o","n","s","t","r","u","c","t","o","r">>,
   <<"_","_","p","r","o","t","o","_","_">>,
   <<"C","o","n","s","t","r","u","c","t","o","r">>,
   <<"e">>}

SetNameInputs ==
  {<<"B","a","s","e"," ","S","e","t">>,
   <<"B","A","S","E"," ","S","E","T"," ","(","S","H","A","D","O","W","L","E","S","S",")">>,
   <<"J","u","n","g","l","e">>,
   <<"N","e","o"," ","D","e","s","t","i","n","y">>,
   <<"T","e","a","m"," ","R","o","c","k","e","t"," ","R","e","t","u","r","n","s">>,
   <<"F","o","s","s","i","l">>,
   <<"E","v","o","l","v","i","n","g"," ","S","k","i","e","s">>,
   <<"S","w","o","r","d"," ","&"," ","S","h","i","e","l","d">>,
   <<"C","h","a","m","p","i","o","n","'","s"," ","P","a","t","h">>,
   <<"m","y"," ","c","o","n","s","t","r","u","c","t","o","r">>}

MatchInputs == [hint : HintInputs, setName : SetNameInputs]

InitMatch ==
  /\ cardData = Null
  /\ fuseIndex = Null
  /\ cardsByNumber = Null
  /\ loadPromise = Null
  /\ task = [pc |-> "none", outcome |-> "none"]
  /\ callers = [c \in Callers |-> "idle"]
  /\ calls = 0
  /\ fetchCount = 0
  /\ lastSearch = NoSearch
  /\ pq \in MatchInputs
  /\ parsed = NotParsed

\* A call of matchSetName: it throws, or returns a boolean.
matchSetNameCall(hint, actualSetName) ==
  IF matchSetNameThrows(hint, actualSetName)
  THEN [type |-> "match", threw |-> TRUE]
  ELSE [type |-> "match", threw |-> FALSE,
        value |-> matchSetName(hint, actualSetName)]

MatchSet ==
  /\ parsed = NotParsed
  /\ parsed' = matchSetNameCall(pq.hint, pq.setName)
  /\ UNCHANGED <<cardData, fuseIndex, cardsByNumber, loadPromise, task,
                 callers, calls, fetchCount, lastSearch, pq>>

NextMatch == MatchSet

SpecMatch == InitMatch /\ [][NextMatch]_vars

\* The aliases the table lists under a key.
AliasesOf(key) ==
  UNION {Entries(SET_ABBREVIATIONS[k].aliases) :
           k \in {k \in 1..Len(SET_ABBREVIATIONS) : SET_ABBREVIATIONS[k].key = key}}

\* The three ways in which a lower-cased hint matches a lower-cased set name.
HintMatches(hint, setName) ==
  \/ includes(setName, hint)
  \/ hint \in TableKeys /\ \E a \in AliasesOf(hint) : includes(setName, a)
  \/ \E a \in TableAliases : includes(a, hint) /\ includes(setName, a)

\* C24: matchSetName(hint, setName) returns true exactly when, ignoring
\* case, the set name contains the hint, or the hint is a key of the
\* abbreviation table and one of its aliases is a substring of the set name,
\* or some alias of the table contains the hint and is itself a substring of
\* the set name; it returns false otherwise, and the result is the same for
\* the arguments in lower case and in upper case.
C24_MatchSetName ==
  parsed # NotParsed =>
    /\ ~parsed.threw
    /\ parsed.value = HintMatches(toLowerCase(pq.hint), toLowerCase(pq.setName))
    /\ parsed = matchSetNameCall(toLowerCase(pq.hint), toLowerCase(pq.setName))
    /\ parsed = matchSetNameCall(toUpperCase(pq.hint), toUpperCase(pq.setName))


(***************************************************************************)
(* Progress of the loader.  The fetch and the reading of the body settle   *)
(* (the proviso of the claim); the continuation of a caller is left to the *)
(* caller, which may never run it.  smartSearch is synchronous and assigns *)
(* none of cardData, fuseIndex, loadPromise, so the steps of the loader    *)
(* are taken on their own.                                                 *)
(***************************************************************************)
NextLoad ==
  \/ \E c \in Callers : loadCardData(c)
  \/ FetchRejected
  \/ FetchNotOk
  \/ FetchOk
  \/ JsonRejected
  \/ JsonResolved
  \/ \E c \in Callers : Resume(c)

FetchSettles == FetchRejected \/ FetchNotOk \/ FetchOk

JsonSettles == JsonRejected \/ JsonResolved

SpecFair ==
  /\ Init /\ [][NextLoad]_vars
  /\ WF_vars(FetchSettles)
  /\ WF_vars(JsonSettles)

InFlight == task.pc \in {"fetching", "parsing"}

\* C25: a call of loadCardData never resolves while the load it started or
\* joined is in flight; provided the fetch settles, every call resolves in
\* the end; and the load completes and publishes its result whether or not
\* its callers are still awaiting it.
C25_AwaitsLoad ==
  /\ [][\A c \in Callers :
          (callers[c] # "resolved" /\ callers'[c] = "resolved")
            => (~InFlight /\ ~InFlight' /\ task.pc = "done"
                /\ loadPromise.state = "fulfilled")]_vars
  /\ (\A c \in Callers : WF_vars(Resume(c)))
       => \A c \in Callers : (callers[c] = "awaiting") ~> (callers[c] = "resolved")
  /\ InFlight ~> (task.pc = "done" /\ loadPromise.state = "fulfilled")

C25_Witness ==
  /\ task.pc = "done"
  /\ calls = NumCallers
  /\ fetchCount = 1
  /\ \A c \in Callers : callers[c] = "resolved"
  /\ lastSearch = NoSearch


(***************************************************************************)
(* The catalog builders on their own: transformCard of the API download,  *)
(* apiToCached of the page and the product loop of the TCGCSV download.    *)
(* pq holds the builder and its input and parsed the record built, Null    *)
(* when the builder skips the card.  A price variant is reduced to its     *)
(* market price, in whole units; low and high are copied and never read.   *)
(***************************************************************************)
MaxRows == 3

MIN_PRICE == 10

priceKeys == <<"normal", "holofoil", "reverseHolofoil", "1stEditionHolofoil",
               "1stEditionNormal">>

\* card.tcgplayer?.prices is undefined.
NoPrices == [none |-> TRUE]

\* The variant is missing, or its market price is null.
Absent == [absent |-> TRUE]

\* Math.max(...allPrices) of a non-empty list, 0 of the empty one.
MaxOrZero(S) == IF S = {} THEN 0 ELSE SetMax(S)

getHighestPrice(prices) ==
  IF prices = NoPrices THEN 0
  ELSE MaxOrZero({prices[k].market :
                    k \in {k \in DOMAIN prices :
                             prices[k] # Absent /\ prices[k].market > 0}})

\* The prices map of a record: the market price of each variant kept.
PositiveVariants(tcgPrices) ==
  IF tcgPrices = NoPrices THEN {}
  ELSE {k \in DOMAIN tcgPrices : tcgPrices[k] # Absent /\ tcgPrices[k].market > 0}

TruthyVariants(tcgPrices) ==
  IF tcgPrices = NoPrices THEN {}
  ELSE {k \in DOMAIN tcgPrices : tcgPrices[k] # Absent /\ tcgPrices[k].market # 0}

transformCard(tcgPrices) ==
  LET highestPrice == getHighestPrice(tcgPrices)
  IN  IF highestPrice < MIN_PRICE THEN Null
      ELSE [prices |-> [k \in PositiveVariants(tcgPrices) |-> tcgPrices[k].market],
            highestPrice |-> highestPrice]

apiToCached(tcgPrices) ==
  LET prices    == [k \in TruthyVariants(tcgPrices) |-> tcgPrices[k].market]
      allPrices == {prices[k] : k \in {k \in DOMAIN prices : prices[k] # 0}}
  IN  [prices |-> prices, highestPrice |-> MaxOrZero(allPrices)]

\* `${p.productId}-${p.subTypeName}`
PriceKey(p) == p.productId \o <<"-">> \o p.subTypeName

startsWith(s, prefix) ==
  Len(prefix) <= Len(s) /\ SubSeq(s, 1, Len(prefix)) = prefix

\* s.replace(" ", "") : the first blank is removed.
replaceFirstBlank(s) ==
  LET at == {i \in 1..Len(s) : s[i] = " "}
  IN  IF at = {} THEN s
      ELSE SubSeq(s, 1, SetMin(at) - 1) \o SubSeq(s, SetMin(at) + 1, Len(s))

\* priceMap.set(key, p): a Map keeps a key at the place of its first
\* insertion; the entries are the rows in iteration order.
PriceMapSet(priceMap, p) ==
  LET at == {i \in 1..Len(priceMap) : PriceKey(priceMap[i]) = PriceKey(p)}
  IN  IF at = {} THEN Append(priceMap, p)
      ELSE [priceMap EXCEPT ![SetMin(at)] = p]

RECURSIVE PriceMapOf(_, _)
PriceMapOf(prices, n) ==
  IF n = 0 THEN <<>> ELSE PriceMapSet(PriceMapOf(prices, n - 1), prices[n])

\* One turn of the loop over priceMap for a product.
ProductPrice(productId, price, acc) ==
  IF startsWith(PriceKey(price), productId \o <<"-">>) /\ price.marketPrice # 0
  THEN [prices |-> (replaceFirstBlank(toLowerCase(price.subTypeName))
                      :> price.marketPrice) @@ acc.prices,
        highestPrice |-> IF price.marketPrice > acc.highestPrice
                         THEN price.marketPrice ELSE acc.highestPrice]
  ELSE acc

RECURSIVE ProductPrices(_, _, _)
ProductPrices(productId, priceMap, n) ==
  IF n = 0 THEN [prices |-> <<>>, highestPrice |-> 0]
  ELSE ProductPrice(productId, priceMap[n], ProductPrices(productId, priceMap, n - 1))

\* The record the TCGCSV download builds for a product of a group with the
\* price rows `prices'.
tcgcsvCard(productId, prices) ==
  LET priceMap == PriceMapOf(prices, Len(prices))
      built    == ProductPrices(productId, priceMap, Len(priceMap))
  IN  IF built.highestPrice < MIN_PRICE THEN Null ELSE built

ApiMarkets == {0, 0 - 5, 5, 50}

ApiPrices ==
  {NoPrices} \cup
  [{priceKeys[k] : k \in 1..Len(priceKeys)} ->
     {Absent} \cup {[market |-> n] : n \in ApiMarkets}]

PriceRows ==
  [productId : {<<"1">>, <<"1","2">>},
   subTypeName : {<<"N","o","r","m","a","l">>,
                  <<"H","o","l","o","f","o","i","l">>,
                  <<"h","o","l","o","f","o","i","l">>},
   marketPrice : {0, 5, 50}]

BuildInputs ==
  [builder : {"transformCard", "apiToCached"}, tcgPrices : ApiPrices]
    \cup [builder : {"tcgcsv"}, productId : {<<"1">>},
          prices : UNION {[1..n -> PriceRows] : n \in 0..MaxRows}]

InitBuild ==
  /\ cardData = Null
  /\ fuseIndex = Null
  /\ cardsByNumber = Null
  /\ loadPromise = Null
  /\ task = [pc |-> "none", outcome |-> "none"]
  /\ callers = [c \in Callers |-> "idle"]
  /\ calls = 0
  /\ fetchCount = 0
  /\ lastSearch = NoSearch
  /\ pq \in BuildInputs
  /\ parsed = NotParsed

Built(card) ==
  /\ parsed = NotParsed
  /\ parsed' = [type |-> "built", value |-> card]
  /\ UNCHANGED <<cardData, fuseIndex, cardsByNumber, loadPromise, task,
                 callers, calls, fetchCount, lastSearch, pq>>

BuildTransform == pq.builder = "transformCard" /\ Built(transformCard(pq.tcgPrices))

BuildApi == pq.builder = "apiToCached" /\ Built(apiToCached(pq.tcgPrices))

BuildTcgcsv == pq.builder = "tcgcsv" /\ Built(tcgcsvCard(pq.productId, pq.prices))

NextBuild == BuildTransform \/ BuildApi \/ BuildTcgcsv

SpecBuild == InitBuild /\ [][NextBuild]_vars

\* C26: every record produced by a catalog builder (transformCard of the API
\* download, apiToCached of the page, the TCGCSV download loop) has as
\* highestPrice the maximum of the market prices of the variants stored in
\* its prices map, 0 when the map is empty.
C26_HighestPrice ==
  (parsed # NotParsed /\ parsed.value # Null) =>
    parsed.value.highestPrice
      = MaxOrZero({parsed.value.prices[k] : k \in DOMAIN parsed.value.prices})


\* A step of a call of loadCardData: its entry, or its continuation.
LoadCallStep == calls' = calls + 1 \/ callers' # callers

\* C27: over any sequence and interleaving of calls of loadCardData the
\* catalog is fetched at most once; once the first load has settled, having
\* succeeded or failed, no later call starts a fetch or changes the
\* catalog, the fuzzy index or the number index.
C27_AtMostOneFetch ==
  [][/\ fetchCount' <= 1
     /\ (task.pc = "done" /\ LoadCallStep)
          => /\ fetchCount' = fetchCount
             /\ cardData' = cardData
             /\ fuseIndex' = fuseIndex
             /\ cardsByNumber' = cardsByNumber
             /\ task' = task]_vars

C27_Witness ==
  /\ task.outcome = "notOk"
  /\ Unloaded
  /\ calls = MaxCalls
  /\ fetchCount = 1
  /\ \A c \in Callers : callers[c] = "resolved"
  /\ lastSearch = NoSearch


\* What a caller of smartSearch observes: the cards returned, or the
\* exception.
Observed(r) == [result |-> r.result, threw |-> r.threw]

\* Every query and limit is answered on the number index as the earlier
\* searches have left it as it is on the number index `fresh'.
SameAnswers(fresh) ==
  cardsByNumber # fresh =>
    \A q \in SearchQueries : \A limit \in Limits :
      Observed(smartSearchOn(cardsByNumber, q, limit))
        = Observed(smartSearchOn(fresh, q, limit))

\* C28: on a loaded catalog smartSearch(q, limit) returns the same sequence
\* whether it is the first search after the load, which finds the number
\* index as buildNumberIndex left it, or follows any sequence of other
\* searches.  The searches are synchronous, so one is made only when none
\* is under way.
C28_HistoryIndependence ==
  (Populated /\ lastSearch = NoSearch) => SameAnswers(buildNumberIndex(cardData.cards))

C28_Witness ==
  /\ cardData = CatalogA
  /\ Populated
  /\ lastSearch = NoSearch
  /\ cardsByNumber # buildNumberIndex(CatalogA.cards)
  /\ smartSearch(QSlash, DefaultLimit).result = <<CardB, CardA>>
  /\ smartSearch(QSlash, DefaultLimit).result
       = smartSearchOn(buildNumberIndex(CatalogA.cards), QSlash, DefaultLimit).result


\* The identifiers of the cards of s are pairwise different.
DistinctIds(s) == Cardinality(Ids(Entries(s))) = Len(s)

\* C29: the identifiers of the catalog being unique and the fuzzy index
\* returning each card at most once, the sequence returned by smartSearch
\* never holds the same identifier twice, on the card-number path, the
\* set-number path, the name path with its fuzzy supplement and the
\* fallback.
C29_NoDuplicates ==
  (lastSearch # NoSearch /\ Populated /\ DistinctIds(cardData.cards))
    => DistinctIds(lastSearch.ranked) /\ DistinctIds(lastSearch.result)

C29_Witness ==
  /\ lastSearch # NoSearch
  /\ lastSearch.nameSearches = 1
  /\ Populated
  /\ lastSearch.type = "name"
  /\ lastSearch.result = lastSearch.ranked
  /\ Len(lastSearch.result) < Cardinality(Containing(LastText))
                                + Len(FuseSearch(fuseIndex, NameText, 100))
  /\ Cardinality(Containing(LastText)) \in 1..9
  /\ \E card \in Entries(FuseSearch(fuseIndex, NameText, 100)) :
       card \in Containing(LastText)
  /\ \E card \in Entries(FuseSearch(fuseIndex, NameText, 100)) :
       card \notin Containing(LastText)
  /\ DistinctIds(lastSearch.result)


(***************************************************************************)
(* The recent searches of the search bar: pq holds the list recentSearches *)
(* and parsed the last call of saveRecentSearch (its term, the list it     *)
(* found, the last non-blank term saved so far, the number of calls).      *)
(***************************************************************************)
MaxSaves == 3

MaxRecent == 5

\* Variant: the term is compared with the entries as written.
saveRecentSearchCaseSensitive(prev, term) ==
  IF trim(term) = <<>> THEN prev
  ELSE slice0(<<term>> \o SelectSeq(prev, LAMBDA s : s # term), MaxRecent)

\* saveRecentSearch(term) on the list prev.
saveRecentSearch(prev, term) ==
  IF trim(term) = <<>> THEN prev
  ELSE slice0(<<term>> \o SelectSeq(prev, LAMBDA s : toLowerCase(s) # toLowerCase(term)),
              MaxRecent)

Terms == {<<"a">>, <<"A">>, <<"a", " ">>, <<"b">>, <<"c">>, <<"d">>, <<"e">>,
          <<"F">>, <<" ">>, <<>>}

\* Lists the effect on mount can have loaded: at most 5 entries, no two
\* equal ignoring case.
RecentLists ==
  {<<>>,
   <<<<"b">>>>,
   <<<<"B">>, <<"c">>>>,
   <<<<" ">>, <<"a">>>>,
   <<<<"a">>, <<"b">>, <<"c">>, <<"d">>, <<"e">>>>}

InitRecent ==
  /\ cardData = Null
  /\ fuseIndex = Null
  /\ cardsByNumber = Null
  /\ loadPromise = Null
  /\ task = [pc |-> "none", outcome |-> "none"]
  /\ callers = [c \in Callers |-> "idle"]
  /\ calls = 0
  /\ fetchCount = 0
  /\ lastSearch = NoSearch
  /\ pq \in RecentLists
  /\ parsed = NotParsed

Saves == IF parsed = NotParsed THEN 0 ELSE parsed.saves

LastSaved == IF parsed = NotParsed THEN Undefined ELSE parsed.last

SaveRecent ==
  /\ Saves < MaxSaves
  /\ \E term \in Terms :
       /\ pq' = saveRecentSearch(pq, term)
       /\ parsed' = [type |-> "saved", term |-> term, before |-> pq,
                     last |-> IF trim(term) = <<>> THEN LastSaved ELSE term,
                     saves |-> Saves + 1]
  /\ UNCHANGED <<cardData, fuseIndex, cardsByNumber, loadPromise, task,
                 callers, calls, fetchCount, lastSearch>>

NextRecent == SaveRecent

SpecRecent == InitRecent /\ [][NextRecent]_vars

\* C30: after any sequence of calls of saveRecentSearch, starting from a
\* list of at most 5 entries without duplicates ignoring case, the list
\* holds at most 5 entries, no two entries are equal ignoring case, the
\* most recently saved non-blank term is first, and a blank or
\* whitespace-only term has left the list unchanged.
C30_RecentSearches ==
  /\ Len(pq) <= 5
  /\ \A i, j \in 1..Len(pq) : i # j => toLowerCase(pq[i]) # toLowerCase(pq[j])
  /\ parsed # NotParsed =>
       /\ parsed.last # Undefined => (Len(pq) >= 1 /\ pq[1] = parsed.last)
       /\ trim(parsed.term) = <<>> => pq = parsed.before

C30_Witness ==
  /\ parsed # NotParsed
  /\ parsed.saves = MaxSaves
  /\ parsed.term = <<" ">>
  /\ parsed.last = <<"A">>
  /\ pq = <<<<"A">>, <<"F">>, <<"b">>, <<"c">>, <<"d">>>>

=============================================================================
